---- MODULE Spec2Model ----
(***************************************************************************)
(* Model of the current MTP class of src/lib/index.js (lines 534-1796):    *)
(* the device session, path resolution over the device's id graph, device  *)
(* enumeration and the recursive upload / download walks.                  *)
(*                                                                         *)
(* Strings are sequences of one-character strings, so that path.resolve,   *)
(* path.join, split('/') and the hidden-file pattern are computed and not  *)
(* assumed.  A {data, error} result is the record [data, error] where data *)
(* is <<>> for null and <<v>> for the value v, and error is a string.      *)
(* An async function is a frame on `stack`; one action runs one frame from *)
(* one await to the next and makes at most one helper call.                *)
(* Every record lists its fields in one fixed order, that of the fields'  *)
(* first mention in the module.                                           *)
(***************************************************************************)
EXTENDS Integers, Sequences, FiniteSets, TLC

VARIABLES device, storageId, cwd, store, nextId, stack, ret, log, faults, ops, cur,
          released

vars == <<device, storageId, cwd, store, nextId, stack, ret, log, faults, ops, cur, released>>

(***************************************************************************)
(* Bounds                                                                  *)
(***************************************************************************)
MaxOps == 1
MaxFaults == 1
(* the frames of a call: the model follows an enumeration no deeper *)
MaxDepth == 6

(***************************************************************************)
(* Values                                                                  *)
(***************************************************************************)
Null == "null"
(* MTP_FLAGS.FILES_AND_FOLDERS_ROOT: the id of no object, all bits set *)
FILES_AND_FOLDERS_ROOT == 0 - 1

NO_MTP == "No MTP device found"
NO_STORAGE == "MTP storage not accessible"
NO_FILES_COPIED == "No files were transfering. Refresh your MTP"
UPLOAD_FILE_FAILED == "Some error occured while transfering files to MTP device"
DOWNLOAD_FILE_FAILED == "Some error occured while transfering files from MTP device"
CREATE_FOLDER_FAILED == "Some error occured while creating a new folder"
CREATE_FOLDER_FILE_FAILED == "A file with a similar name exists"
INVALID_PATH_RESOLVE == "Illegal path, could not resolve the path"
INVALID_NOT_FOUND == "Path not found"
THROWN == "exception thrown by the provider"
LOCAL_FOLDER_NOT_FOUND == "Source folder not found"
ILLEGAL_FILE_NAME == "Illegal file name"
RENAME_FAILED == "Some error occured while renaming"
FILE_INFO_FAILED == "Some error occured while fetching the file information"
MKDIR_ERROR == "mkdirp error"

Ok(v) == [data |-> <<v>>, error |-> Null]
Err(e) == [data |-> <<>>, error |-> e]
NoRet == [data |-> <<>>, error |-> "no result yet"]

undefinedOrNull(m) == m = <<>>

(***************************************************************************)
(* Strings and node's path module                                          *)
(***************************************************************************)
Last(s) == s[Len(s)]

HasSlash(s) == \E k \in 1..Len(s) : s[k] = "/"

FirstSlash(s) == CHOOSE k \in 1..Len(s) : s[k] = "/" /\ \A j \in 1..(k - 1) : s[j] # "/"

RECURSIVE Split(_)
Split(s) ==
  IF ~HasSlash(s) THEN <<s>>
  ELSE <<SubSeq(s, 1, FirstSlash(s) - 1)>> \o Split(SubSeq(s, FirstSlash(s) + 1, Len(s)))

RECURSIVE JoinSegs(_)
JoinSegs(segs) ==
  IF segs = <<>> THEN <<>>
  ELSE IF Len(segs) = 1 THEN segs[1]
  ELSE segs[1] \o <<"/">> \o JoinSegs(Tail(segs))

RECURSIVE NormalizeSegs(_, _, _)
NormalizeSegs(segs, out, abs) ==
  IF segs = <<>> THEN out
  ELSE LET seg == Head(segs) IN
    IF seg = <<>> \/ seg = <<".">> THEN NormalizeSegs(Tail(segs), out, abs)
    ELSE IF seg = <<".", ".">> THEN
      IF out # <<>> /\ Last(out) # <<".", ".">>
        THEN NormalizeSegs(Tail(segs), SubSeq(out, 1, Len(out) - 1), abs)
      ELSE IF abs THEN NormalizeSegs(Tail(segs), out, abs)
      ELSE NormalizeSegs(Tail(segs), Append(out, seg), abs)
    ELSE NormalizeSegs(Tail(segs), Append(out, seg), abs)

IsAbs(p) == p # <<>> /\ p[1] = "/"

PathNormalize(p) ==
  IF p = <<>> THEN <<".">>
  ELSE LET abs == IsAbs(p)
           trailing == Last(p) = "/"
           body == JoinSegs(NormalizeSegs(Split(p), <<>>, abs))
       IN IF body = <<>>
            THEN IF abs THEN <<"/">> ELSE IF trailing THEN <<".", "/">> ELSE <<".">>
            ELSE (IF abs THEN <<"/">> ELSE <<>>) \o body \o (IF trailing THEN <<"/">> ELSE <<>>)

PathJoin(a, b) ==
  IF a = <<>> /\ b = <<>> THEN <<".">>
  ELSE IF a = <<>> THEN PathNormalize(b)
  ELSE IF b = <<>> THEN PathNormalize(a)
  ELSE PathNormalize(a \o <<"/">> \o b)

PathResolve(p, wd) ==
  LET full == IF IsAbs(p) THEN p ELSE IF p = <<>> THEN wd ELSE wd \o <<"/">> \o p
  IN <<"/">> \o JoinSegs(NormalizeSegs(Split(full), <<>>, TRUE))

PathBasename(p) ==
  LET segs == SelectSeq(Split(p), LAMBDA s : s # <<>>)
  IN IF segs = <<>> THEN <<>> ELSE Last(segs)

(* path.dirname of a resolved path *)
PathDirname(p) ==
  LET segs == SelectSeq(Split(p), LAMBDA s : s # <<>>)
  IN IF Len(segs) <= 1 THEN <<"/">>
     ELSE <<"/">> \o JoinSegs(SubSeq(segs, 1, Len(segs) - 1))

WhiteSpace == {" ", "\t", "\n"}

(* String.prototype.trim *)
RECURSIVE Trim(_)
Trim(s) ==
  IF s = <<>> THEN s
  ELSE IF Head(s) \in WhiteSpace THEN Trim(Tail(s))
  ELSE IF Last(s) \in WhiteSpace THEN Trim(SubSeq(s, 1, Len(s) - 1))
  ELSE s

(* /(^|\/)\.[^\/\.]/.test(name) *)
IsHidden(name) ==
  \E k \in 1..(Len(name) - 1) :
    /\ name[k] = "."
    /\ (k = 1 \/ name[k - 1] = "/")
    /\ name[k + 1] \notin {"/", "."}


(***************************************************************************)
(* The device store and the provider primitives (mtp-helper): the store is *)
(* the sequence of the device's objects in the provider's enumeration      *)
(* order.  A primitive returns the set of its possible outcomes; an        *)
(* outcome that is a provider failure is possible while w.faults is below  *)
(* MaxFaults.  w is the world a call acts on:                              *)
(* [device, storageId, store, nextId, log, faults].                        *)
(***************************************************************************)
Entry(id, name, isFolder, size, parentId) ==
  [name |-> name,
   id |-> id,
   isFolder |-> isFolder,
   size |-> size,
   parentId |-> parentId]

THROW == 0 - 1

Call(call, w, id, name, path, res, files, made) ==
  [name |-> name,
   id |-> id,
   call |-> call,
   path |-> path,
   res |-> res,
   files |-> files,
   made |-> made,
   dev |-> w.device,
   sid |-> w.storageId]

Logged(w, rec) == [w EXCEPT !.log = Append(@, rec)]

Faulted(w) == [w EXCEPT !.faults = @ + 1]

CanFail(w) == w.faults < MaxFaults

ChildrenOf(st, folderId) == SelectSeq(st, LAMBDA e : e.parentId = folderId)

RECURSIVE Descendants(_, _)
Descendants(st, ids) ==
  LET more == {st[k].id : k \in {j \in 1..Len(st) : st[j].parentId \in ids}}
  IN IF more \subseteq ids THEN ids ELSE Descendants(st, ids \cup more)

(* a primitive called with a null device handle: the native call throws or *)
(* reports the failure status fail, and leaves the device as it is         *)
NoHandle(w, call, id, name, fail) ==
  {[w |-> Logged(w, Call(call, w, id, name, <<>>, THROW, <<>>, 0)),
    res |-> THROW,
    thrown |-> TRUE],
   [w |-> Logged(w, Call(call, w, id, name, <<>>, fail, <<>>, 0)),
    res |-> fail,
    thrown |-> FALSE]}

(* Get_Files_And_Folders(device, storageId, folderId) *)
Get_Files_And_Folders(w, folderId) ==
  LET files == ChildrenOf(w.store, folderId) IN
  {[w |-> Logged(w, Call("Get_Files_And_Folders", w, folderId, <<>>, <<>>, 0, files, 0)),
    files |-> files,
    thrown |-> FALSE]}
  \cup
  (IF CanFail(w)
     THEN {[w |-> Faulted(Logged(w, Call("Get_Files_And_Folders", w, folderId, <<>>, <<>>, THROW, <<>>, 0))),
            files |-> <<>>,
            thrown |-> TRUE]}
     ELSE {})

(* Create_Folder(device, name, parentId, storageId): the new id, or 0 *)
Create_Folder(w, name, parentId) ==
  IF w.device = Null THEN NoHandle(w, "Create_Folder", parentId, name, 0) ELSE
  LET exists == \E k \in 1..Len(w.store) :
                  w.store[k].parentId = parentId /\ w.store[k].name = name
      made == [w EXCEPT !.store = Append(@, Entry(w.nextId, name, TRUE, 0, parentId)),
                        !.nextId = @ + 1]
  IN
  (IF exists
     THEN {[w |-> Logged(w, Call("Create_Folder", w, parentId, name, <<>>, 0, <<>>, 0)),
            res |-> 0,
            thrown |-> FALSE]}
     ELSE {[w |-> Logged(made, Call("Create_Folder", w, parentId, name, <<>>, w.nextId, <<>>, w.nextId)),
            res |-> w.nextId,
            thrown |-> FALSE]}
          \cup
          (IF CanFail(w)
             THEN {[w |-> Faulted(Logged(w, Call("Create_Folder", w, parentId, name, <<>>, 0, <<>>, 0))),
                    res |-> 0,
                    thrown |-> FALSE]}
             ELSE {}))
  \cup
  (IF CanFail(w)
     THEN {[w |-> Faulted(Logged(w, Call("Create_Folder", w, parentId, name, <<>>, THROW, <<>>, 0))),
            res |-> THROW,
            thrown |-> TRUE]}
     ELSE {})

(* Destroy_file(device, fileId): a status the wrapper does not read *)
Destroy_file(w, fileId) ==
  IF w.device = Null THEN NoHandle(w, "Destroy_file", fileId, <<>>, 1) ELSE
  LET gone == Descendants(w.store, {fileId})
      removed == [w EXCEPT !.store = SelectSeq(@, LAMBDA e : e.id \notin gone)]
  IN
  {[w |-> Logged(removed, Call("Destroy_file", w, fileId, <<>>, <<>>, 0, <<>>, 0)),
    res |-> 0,
    thrown |-> FALSE]}
  \cup
  (IF CanFail(w)
     THEN {[w |-> Faulted(Logged(w, Call("Destroy_file", w, fileId, <<>>, <<>>, 1, <<>>, 0))),
            res |-> 1,
            thrown |-> FALSE],
           [w |-> Faulted(Logged(w, Call("Destroy_file", w, fileId, <<>>, <<>>, THROW, <<>>, 0))),
            res |-> THROW,
            thrown |-> TRUE]}
     ELSE {})

(* the store with the entry fileId named newfileName *)
RECURSIVE Renamed(_, _, _)
Renamed(st, fileId, newfileName) ==
  IF st = <<>> THEN <<>>
  ELSE << IF Head(st).id = fileId
            THEN Entry(fileId, newfileName, Head(st).isFolder, Head(st).size, Head(st).parentId)
            ELSE Head(st) >>
       \o Renamed(Tail(st), fileId, newfileName)

(* Set_File_Name(device, file, newfileName): 0 on success.  The provider   *)
(* may report a status that does not match what it did to the name         *)
Set_File_Name(w, fileId, newfileName) ==
  IF w.device = Null THEN NoHandle(w, "Set_File_Name", fileId, newfileName, 1) ELSE
  LET exists == \E k \in 1..Len(w.store) : w.store[k].id = fileId
      renamed == [w EXCEPT !.store = Renamed(@, fileId, newfileName)]
      rec(res) == Call("Set_File_Name", w, fileId, newfileName, <<>>, res, <<>>, 0)
  IN
  (IF exists
     THEN {[w |-> Logged(renamed, rec(0)),
            res |-> 0,
            thrown |-> FALSE]}
          \cup
          (IF CanFail(w)
             THEN {[w |-> Faulted(Logged(w, rec(0))),
                    res |-> 0,
                    thrown |-> FALSE],
                   [w |-> Faulted(Logged(renamed, rec(1))),
                    res |-> 1,
                    thrown |-> FALSE],
                   [w |-> Faulted(Logged(w, rec(1))),
                    res |-> 1,
                    thrown |-> FALSE]}
             ELSE {})
     ELSE {[w |-> Logged(w, rec(1)),
            res |-> 1,
            thrown |-> FALSE]})
  \cup
  (IF CanFail(w)
     THEN {[w |-> Faulted(Logged(w, rec(THROW))),
            res |-> THROW,
            thrown |-> TRUE]}
     ELSE {})

(* Get_Filemetadata(device, fileId): the entry, or no entry (<<>>) *)
Get_Filemetadata(w, fileId) ==
  LET hits == SelectSeq(w.store, LAMBDA e : e.id = fileId)
      rec(res) == Call("Get_Filemetadata", w, fileId, <<>>, <<>>, res, <<>>, 0)
  IN
  IF w.device = Null
    THEN {[w |-> Logged(w, rec(THROW)),
           files |-> <<>>,
           thrown |-> TRUE],
          [w |-> Logged(w, rec(1)),
           files |-> <<>>,
           thrown |-> FALSE]}
  ELSE
  {[w |-> Logged(w, rec(IF hits = <<>> THEN 1 ELSE 0)),
    files |-> IF hits = <<>> THEN <<>> ELSE <<hits[1]>>,
    thrown |-> FALSE]}
  \cup
  (IF CanFail(w)
     THEN {[w |-> Faulted(Logged(w, rec(1))),
            files |-> <<>>,
            thrown |-> FALSE],
           [w |-> Faulted(Logged(w, rec(THROW))),
            files |-> <<>>,
            thrown |-> TRUE]}
     ELSE {})

(* Send_File_From_File(device, filePath, file, progress): 0 on success *)
Send_File_From_File(w, filePath, file) ==
  LET sent == [w EXCEPT !.store = Append(@, Entry(w.nextId, file.name, FALSE, file.size, file.parentId)),
                        !.nextId = @ + 1]
  IN
  {[w |-> Logged(sent, Call("Send_File_From_File", w, file.parentId, file.name, filePath, 0, <<>>, w.nextId)),
    res |-> 0,
    thrown |-> FALSE]}
  \cup
  (IF CanFail(w)
     THEN {[w |-> Faulted(Logged(w, Call("Send_File_From_File", w, file.parentId, file.name, filePath, 1, <<>>, 0))),
            res |-> 1,
            thrown |-> FALSE],
           [w |-> Faulted(Logged(w, Call("Send_File_From_File", w, file.parentId, file.name, filePath, THROW, <<>>, 0))),
            res |-> THROW,
            thrown |-> TRUE]}
     ELSE {})

(* Get_File_To_File(device, fileId, destinationFilePath, progress): 0 on success *)
Get_File_To_File(w, fileId, destinationFilePath) ==
  LET isFile == \E k \in 1..Len(w.store) : w.store[k].id = fileId /\ ~w.store[k].isFolder
  IN
  (IF isFile
     THEN {[w |-> Logged(w, Call("Get_File_To_File", w, fileId, <<>>, destinationFilePath, 0, <<>>, 0)),
            res |-> 0,
            thrown |-> FALSE]}
          \cup
          (IF CanFail(w)
             THEN {[w |-> Faulted(Logged(w, Call("Get_File_To_File", w, fileId, <<>>, destinationFilePath, 1, <<>>, 0))),
                    res |-> 1,
                    thrown |-> FALSE]}
             ELSE {})
     ELSE {[w |-> Logged(w, Call("Get_File_To_File", w, fileId, <<>>, destinationFilePath, 1, <<>>, 0)),
            res |-> 1,
            thrown |-> FALSE]})
  \cup
  (IF CanFail(w)
     THEN {[w |-> Faulted(Logged(w, Call("Get_File_To_File", w, fileId, <<>>, destinationFilePath, THROW, <<>>, 0))),
            res |-> THROW,
            thrown |-> TRUE]}
     ELSE {})

(* mkdirp(newFolderPath, cb): an existing directory is no error *)
promisifiedMkdir(w, newFolderPath) ==
  {[error |-> Null,
    w |-> Logged(w, Call("mkdirp", w, 0, <<>>, newFolderPath, 0, <<>>, 0))]}
  \cup
  (IF CanFail(w)
     THEN {[error |-> MKDIR_ERROR,
            w |-> Faulted(Logged(w, Call("mkdirp", w, 0, <<>>, newFolderPath, 1, <<>>, 0)))]}
     ELSE {})

(* the ids of the device's storages as Object.keys lists them *)
Storages == <<"65537", "65538">>

(* Get_Storage(device, sortby) and device.getStorages(): the storages, no   *)
(* array, an empty array, or a throw                                       *)
Get_Storage(w) ==
  {[w |-> Logged(w, Call("Get_Storage", w, 0, <<>>, <<>>, 0, <<>>, 0)),
    res |-> <<Storages>>,
    thrown |-> FALSE]}
  \cup
  (IF CanFail(w)
     THEN {[w |-> Faulted(Logged(w, Call("Get_Storage", w, 0, <<>>, <<>>, 1, <<>>, 0))),
            res |-> <<>>,
            thrown |-> FALSE],
           [w |-> Faulted(Logged(w, Call("Get_Storage", w, 0, <<>>, <<>>, 0, <<>>, 0))),
            res |-> << <<>> >>,
            thrown |-> FALSE],
           [w |-> Faulted(Logged(w, Call("Get_Storage", w, 0, <<>>, <<>>, THROW, <<>>, 0))),
            res |-> <<>>,
            thrown |-> TRUE]}
     ELSE {})

(***************************************************************************)
(* Helpers of the MTP class that run from their call to their return       *)
(* without giving up control before their provider call                    *)
(***************************************************************************)
(* the fileInfo object of __listMtpFileTree *)
FileInfo(file, parentPath) ==
  [name |-> file.name,
   id |-> file.id,
   isFolder |-> file.isFolder,
   size |-> file.size,
   parentId |-> file.parentId,
   path |-> PathJoin(parentPath, file.name),
   children |-> <<>>]

(* the loop of __listMtpFileTree with recursive = false *)
RECURSIVE ListedFlat(_, _, _)
ListedFlat(files, parentPath, ignoreHiddenFiles) ==
  IF files = <<>> THEN <<>>
  ELSE IF ignoreHiddenFiles /\ IsHidden(Head(files).name)
    THEN ListedFlat(Tail(files), parentPath, ignoreHiddenFiles)
  ELSE <<FileInfo(Head(files), parentPath)>> \o ListedFlat(Tail(files), parentPath, ignoreHiddenFiles)

(* __listMtpFileTree({folderId, recursive: false}); parentPath defaults to '' *)
listFlat(w, folderId, parentPath, ignoreHiddenFiles) ==
  IF w.device = Null THEN {[w |-> w,
                            r |-> Err(NO_MTP)]}
  ELSE {[w |-> o.w,
         r |-> IF o.thrown THEN Err(THROWN)
               ELSE Ok(ListedFlat(o.files, parentPath, ignoreHiddenFiles))]
        : o \in Get_Files_And_Folders(w, folderId)}

(* a find that returns the element of that name listed last *)
findLodash_Last(list, name) ==
  LET hits == {k \in 1..Len(list) : list[k].name = name}
  IN IF hits = {} THEN <<>>
     ELSE <<list[CHOOSE k \in hits : \A j \in hits : k >= j]>>

(* lodash find(list, {name}): the first element of that name, <<>> for undefined *)
findLodash(list, name) ==
  LET hits == {k \in 1..Len(list) : list[k].name = name}
  IN IF hits = {} THEN <<>>
     ELSE <<list[CHOOSE k \in hits : \A j \in hits : k <= j]>>


(* the value false of a data field, which is neither null nor an object *)
JsFalse == [jsfalse |-> TRUE]

Truthy(v) == v # JsFalse

(* fileExists({fileName, parentId}) *)
fileExists(w, fileName, parentId) ==
  IF w.device = Null THEN {[w |-> w,
                            r |-> Err(NO_MTP)]}
  ELSE {[w |-> o.w,
         r |-> IF o.r.error # Null THEN Err(o.r.error)
               ELSE IF findLodash(o.r.data[1], fileName) = <<>> THEN Ok(JsFalse)
               ELSE Ok(findLodash(o.r.data[1], fileName)[1])]
        : o \in listFlat(w, parentId, <<>>, FALSE)}

(* a createFolder that hands the sentinel on as the folder's id *)
createFolderConflict_Sentinel(f) ==
  IF f.r.error # Null THEN Err(f.r.error)
  ELSE IF ~Truthy(f.r.data[1]) THEN Err(CREATE_FOLDER_FAILED)
  ELSE IF ~f.r.data[1].isFolder THEN Err(CREATE_FOLDER_FILE_FAILED)
  ELSE Ok(0)

(* a createFolder that does not look at the type of the existing entry *)
createFolderConflict_NoTypeCheck(f) ==
  IF f.r.error # Null THEN Err(f.r.error)
  ELSE IF ~Truthy(f.r.data[1]) THEN Err(CREATE_FOLDER_FAILED)
  ELSE Ok(f.r.data[1].id)

(* the branch of createFolder taken when Create_Folder returned 0 *)
createFolderConflict(f) ==
  IF f.r.error # Null THEN Err(f.r.error)
  ELSE IF ~Truthy(f.r.data[1]) THEN Err(CREATE_FOLDER_FAILED)
  ELSE IF ~f.r.data[1].isFolder THEN Err(CREATE_FOLDER_FILE_FAILED)
  ELSE Ok(f.r.data[1].id)

(* a createFolder for which the sentinel of Create_Folder is a failure *)
createFolderCalled_ConflictFails(w, newFolderName, parentId) ==
  UNION {
    IF c.thrown THEN {[w |-> c.w,
                       r |-> Err(THROWN)]}
    ELSE IF c.res = 0
      THEN {[w |-> c.w,
             r |-> Err(CREATE_FOLDER_FAILED)]}
    ELSE {[w |-> c.w,
           r |-> Ok(c.res)]}
    : c \in Create_Folder(w, newFolderName, parentId)}

(* lines 1219-1283: Create_Folder and what follows it, without the guard *)
createFolderCalled(w, newFolderName, parentId) ==
  UNION {
    IF c.thrown THEN {[w |-> c.w,
                       r |-> Err(THROWN)]}
    ELSE IF c.res = 0
      THEN {[w |-> f.w,
             r |-> createFolderConflict(f)]
            : f \in fileExists(c.w, newFolderName, parentId)}
    ELSE {[w |-> c.w,
           r |-> Ok(c.res)]}
    : c \in Create_Folder(w, newFolderName, parentId)}

(* createFolder({newFolderName, parentId}) *)
createFolder(w, newFolderName, parentId) ==
  IF w.device = Null THEN {[w |-> w,
                            r |-> Err(NO_MTP)]}
  ELSE createFolderCalled(w, newFolderName, parentId)

(* getFileInfo({fileId}) *)
getFileInfo(w, fileId) ==
  IF w.device = Null THEN {[w |-> w,
                            r |-> Err(NO_MTP)]}
  ELSE {[w |-> o.w,
         r |-> IF o.thrown THEN Err(THROWN)
               ELSE IF undefinedOrNull(o.files) THEN Err(FILE_INFO_FAILED)
               ELSE Ok(o.files[1])]
        : o \in Get_Filemetadata(w, fileId)}

(* a deleteFile that reads the status of Destroy_file *)
deleteFile_ReadsStatus(w, fileId) ==
  IF w.device = Null THEN {[w |-> w,
                            r |-> Err(NO_MTP)]}
  ELSE {[w |-> o.w,
         r |-> IF o.thrown THEN Err(THROWN)
               ELSE IF o.res # 0 THEN Err(UPLOAD_FILE_FAILED)
               ELSE Ok(TRUE)]
        : o \in Destroy_file(w, fileId)}

(* deleteFile({fileId}) *)
deleteFile(w, fileId) ==
  IF w.device = Null THEN {[w |-> w,
                            r |-> Err(NO_MTP)]}
  ELSE {[w |-> o.w,
         r |-> IF o.thrown THEN Err(THROWN) ELSE Ok(TRUE)]
        : o \in Destroy_file(w, fileId)}

(* uploadFile({filePath, parentId, size}) *)
uploadFile(w, filePath, parentId, size) ==
  IF w.device = Null THEN {[w |-> w,
                            r |-> Err(NO_MTP)]}
  ELSE {[w |-> o.w,
         r |-> IF o.thrown THEN Err(THROWN)
               ELSE IF o.res # 0 THEN Err(UPLOAD_FILE_FAILED)
               ELSE Ok(o.res)]
        : o \in Send_File_From_File(w, filePath,
                  [name |-> PathBasename(filePath),
                   size |-> size,
                   parentId |-> parentId])}

(* a downloadFile that hands the provider's status on beside the error *)
downloadFile_StatusWithError(w, destinationFilePath, file) ==
  IF w.device = Null THEN {[w |-> w,
                            r |-> Err(NO_MTP)]}
  ELSE {[w |-> o.w,
         r |-> IF o.thrown THEN Err(THROWN)
               ELSE IF o.res # 0 THEN [data |-> <<o.res>>, error |-> DOWNLOAD_FILE_FAILED]
               ELSE Ok(o.res)]
        : o \in Get_File_To_File(w, file.id, destinationFilePath)}

(* downloadFile({destinationFilePath, file}) *)
downloadFile(w, destinationFilePath, file) ==
  IF w.device = Null THEN {[w |-> w,
                            r |-> Err(NO_MTP)]}
  ELSE {[w |-> o.w,
         r |-> IF o.thrown THEN Err(THROWN)
               ELSE IF o.res # 0 THEN Err(DOWNLOAD_FILE_FAILED)
               ELSE Ok(o.res)]
        : o \in Get_File_To_File(w, file.id, destinationFilePath)}

(***************************************************************************)
(* Inputs: the device contents before the first call, the local trees      *)
(* handed to uploadFileTree and the paths handed to resolvePath            *)
(***************************************************************************)
RECURSIVE Str(_)
Str(segs) == IF segs = <<>> THEN <<>> ELSE Head(segs) \o Str(Tail(segs))

nA == <<"a">>
nB == <<"b">>
nC == <<"c">>
nX == <<"x">>
nHidden == <<".", "h">>
pRoot == <<"/">>

(* root: folder a (5), file .h (2); a: file b (9, 120 bytes), folder c (6); c: file b (7) *)
StoreNested ==
  << Entry(5, nA, TRUE, 0, FILES_AND_FOLDERS_ROOT),
     Entry(2, nHidden, FALSE, 3, FILES_AND_FOLDERS_ROOT),
     Entry(9, nB, FALSE, 120, 5),
     Entry(6, nC, TRUE, 0, 5),
     Entry(7, nB, FALSE, 4, 6) >>

(* root: file a (5), file c (3) *)
StoreFileA ==
  << Entry(5, nA, FALSE, 8, FILES_AND_FOLDERS_ROOT),
     Entry(3, nC, FALSE, 1, FILES_AND_FOLDERS_ROOT) >>

(* root: folder a (5), file a (6), file c (3), file c (4): names listed twice *)
StoreTwice ==
  << Entry(5, nA, TRUE, 0, FILES_AND_FOLDERS_ROOT),
     Entry(6, nA, FALSE, 8, FILES_AND_FOLDERS_ROOT),
     Entry(3, nC, FALSE, 1, FILES_AND_FOLDERS_ROOT),
     Entry(4, nC, FALSE, 2, FILES_AND_FOLDERS_ROOT) >>

(* root: folder a (5); a: file .h (8), file b (9): a hidden name below the root *)
StoreHidden ==
  << Entry(5, nA, TRUE, 0, FILES_AND_FOLDERS_ROOT),
     Entry(8, nHidden, FALSE, 3, 5),
     Entry(9, nB, FALSE, 120, 5) >>

InitStores == {<<>>, StoreNested, StoreFileA, StoreTwice, StoreHidden}

(* str.charCodeAt(i), for the characters of the local paths *)
charCodeAt(ch) ==
  CASE ch = "/" -> 47 [] ch = "." -> 46 [] ch = "_" -> 95
    [] ch = "A" -> 65 [] ch = "B" -> 66 [] ch = "D" -> 68 [] ch = "S" -> 83
    [] ch = "a" -> 97 [] ch = "b" -> 98 [] ch = "c" -> 99 [] ch = "e" -> 101
    [] ch = "h" -> 104 [] ch = "n" -> 110 [] ch = "o" -> 111 [] ch = "r" -> 114
    [] ch = "s" -> 115 [] ch = "t" -> 116 [] ch = "x" -> 120

(* hash |= 0 after hash = (hash << 5) - hash + chr: 31 * hash + chr as a   *)
(* signed integer of 32 bits.  hash is kept as its two halves of 16 bits,  *)
(* hi and lo, so that no product leaves the range of the integers.         *)
Half == 65536

RECURSIVE HashFrom(_, _, _)
HashFrom(str, hi, lo) ==
  IF str = <<>> THEN (IF hi >= Half \div 2 THEN hi - Half ELSE hi) * Half + lo
  ELSE HashFrom(Tail(str),
                (31 * hi + (31 * lo + charCodeAt(Head(str))) \div Half) % Half,
                (31 * lo + charCodeAt(Head(str))) % Half)

(* quickHash(str), lines 549-563 *)
quickHash(str) == HashFrom(str, 0, 0)

(* a node of a local tree, as listLocalFileTree builds it below folderPath *)
LocalNode(folderPath, name, isFolder, size, children) ==
  [name |-> name,
   id |-> quickHash(PathJoin(folderPath, name)),
   isFolder |-> isFolder,
   size |-> size,
   path |-> PathJoin(folderPath, name),
   children |-> children]

pSrc == Str(<<pRoot, <<"s">>>>)
pSrcA == PathJoin(pSrc, nA)

(* /s holds a/b and c *)
TreeFolderFirst ==
  << LocalNode(pSrc, nA, TRUE, 0, << LocalNode(pSrcA, nB, FALSE, 120, <<>>) >>),
     LocalNode(pSrc, nC, FALSE, 1, <<>>) >>

(* /s holds the files c and a *)
TreeFiles ==
  << LocalNode(pSrc, nC, FALSE, 1, <<>>),
     LocalNode(pSrc, nA, FALSE, 8, <<>>) >>

SourceTrees == {TreeFolderFirst, TreeFiles}

nAa == <<"A", "a">>
nBB == <<"B", "B">>

(* the name of a junk file: junk.is matches .DS_Store *)
nJunk == <<".", "D", "S", "_", "S", "t", "o", "r", "e">>

IsJunk(file) == file = nJunk

(* an entry of the local file system: what readdirSync(dir) lists and      *)
(* lstatSync and fs.accessSync report for it                               *)
LocalFile(dir, name, isFolder, size, writable) ==
  [name |-> name,
   isFolder |-> isFolder,
   size |-> size,
   dir |-> dir,
   writable |-> writable]

pSrcX == PathJoin(pSrc, nX)
pNone == Str(<<pRoot, <<"n">>>>)

(* /s holds a, c, .DS_Store and the folder x without write access, which   *)
(* holds b; /s/a holds b, .DS_Store, c without write access, Aa and BB     *)
LocalFs ==
  << LocalFile(pSrc, nA, TRUE, 0, TRUE),
     LocalFile(pSrc, nJunk, FALSE, 6, TRUE),
     LocalFile(pSrc, nC, FALSE, 1, TRUE),
     LocalFile(pSrc, nX, TRUE, 0, FALSE),
     LocalFile(pSrcA, nB, FALSE, 120, TRUE),
     LocalFile(pSrcA, nJunk, FALSE, 6, TRUE),
     LocalFile(pSrcA, nC, FALSE, 2, FALSE),
     LocalFile(pSrcA, nAa, FALSE, 5, TRUE),
     LocalFile(pSrcA, nBB, FALSE, 5, TRUE),
     LocalFile(pSrcX, nB, FALSE, 4, TRUE) >>

LocalIsFile(p) ==
  \E k \in 1..Len(LocalFs) :
    PathJoin(LocalFs[k].dir, LocalFs[k].name) = p /\ ~LocalFs[k].isFolder

LocalIsDir(p) ==
  \/ p = pRoot
  \/ p = pSrc
  \/ \E k \in 1..Len(LocalFs) :
       PathJoin(LocalFs[k].dir, LocalFs[k].name) = p /\ LocalFs[k].isFolder

(* an existence check that knows directories only *)
existsSync_DirsOnly(p) == LocalIsDir(p)

(* fs.existsSync(folderPath) *)
existsSync(p) == LocalIsDir(p) \/ LocalIsFile(p)

(* fs.readdirSync(folderPath): the entries, or a throw (always for a path  *)
(* that is not a directory)                                                *)
readdirSync(w, folderPath) ==
  (IF LocalIsDir(folderPath)
     THEN {[w |-> Logged(w, Call("readdirSync", w, 0, <<>>, folderPath, 0, <<>>, 0)),
            files |-> SelectSeq(LocalFs, LAMBDA e : e.dir = folderPath),
            thrown |-> FALSE]}
          \cup
          (IF CanFail(w)
             THEN {[w |-> Faulted(Logged(w, Call("readdirSync", w, 0, <<>>, folderPath, THROW, <<>>, 0))),
                    files |-> <<>>,
                    thrown |-> TRUE]}
             ELSE {})
     ELSE {[w |-> Logged(w, Call("readdirSync", w, 0, <<>>, folderPath, THROW, <<>>, 0)),
            files |-> <<>>,
            thrown |-> TRUE]})

LocalPaths == {pSrc, pSrcA, PathJoin(pSrc, nC), pNone}

(* the tree a recursive enumeration of folderId returns when no call fails *)
RECURSIVE TreeOf(_, _, _)
RECURSIVE TreeOfFiles(_, _, _)
TreeOfFiles(st, files, parentPath) ==
  IF files = <<>> THEN <<>>
  ELSE << [FileInfo(Head(files), parentPath) EXCEPT
             !.children = IF Head(files).isFolder
                            THEN TreeOf(st, Head(files).id, PathJoin(parentPath, Head(files).name))
                            ELSE <<>>] >>
       \o TreeOfFiles(st, Tail(files), parentPath)

TreeOf(st, folderId, parentPath) == TreeOfFiles(st, ChildrenOf(st, folderId), parentPath)

pOut == Str(<<pRoot, <<"o">>>>)

FilePaths ==
  { <<>>,
    pRoot,
    Str(<<pRoot, nA>>),
    Str(<<pRoot, nA, <<"/">>, nB>>),
    Str(<<pRoot, nA, <<"/">>, nX>>),
    Str(<<pRoot, nX, <<"/">>, nB>>),
    Str(<<pRoot, nA, <<"/">>, <<".", ".">>>>),
    nB }

Cwds == {pRoot, Str(<<pRoot, nA>>)}


(***************************************************************************)
(* State                                                                   *)
(***************************************************************************)
W == [device |-> device,
      storageId |-> storageId,
      store |-> store,
      nextId |-> nextId,
      log |-> log,
      faults |-> faults]

SetW(w) ==
  /\ store' = w.store
  /\ nextId' = w.nextId
  /\ log' = w.log
  /\ faults' = w.faults

Top == stack[1]

Idle == stack = <<>>

Running(fn, pc) == stack # <<>> /\ Top.fn = fn /\ Top.pc = pc

(* the frame on top goes on as f *)
Goto(f) == stack' = <<f>> \o Tail(stack) /\ ret' = NoRet

(* the frame on top awaits the call of g as f *)
Await(f, g) == stack' = <<g, f>> \o Tail(stack) /\ ret' = NoRet

(* the frame on top resolves its promise with r *)
Return(r) == stack' = Tail(stack) /\ ret' = r

Done == Idle /\ cur.fn # "none" /\ ret # NoRet

Init ==
  /\ device = Null
  /\ storageId = <<>>
  /\ cwd \in Cwds
  /\ store \in InitStores
  /\ nextId = 10
  /\ stack = <<>>
  /\ ret = NoRet
  /\ log = <<>>
  /\ faults = 0
  /\ ops = 0
  /\ cur = [fn |-> "none"]
  /\ released = FALSE

(* a public method is called while no other call is in progress *)
Begin(frame, args) ==
  /\ Idle
  /\ ops < MaxOps
  /\ ops' = ops + 1
  /\ stack' = <<frame>>
  /\ ret' = NoRet
  /\ log' = <<>>
  /\ cur' = args
  /\ UNCHANGED <<released, device, storageId, cwd, store, nextId, faults>>

(***************************************************************************)
(* The session                                                             *)
(***************************************************************************)
(* detectMtp(): Detect_Raw_Devices reports an error, or a device that      *)
(* Open_Raw_Device_Uncached opens or does not open                         *)
DetectMtp ==
  /\ Idle
  /\ \/ device' = "device" /\ ret' = Ok("device") /\ released' = FALSE
     \/ device' = Null /\ ret' = Err(NO_MTP) /\ UNCHANGED released
  /\ cur' = [fn |-> "detectMtp"]
  /\ log' = <<>>
  /\ UNCHANGED <<storageId, cwd, store, nextId, stack, faults, ops>>

(* releaseDevice(); released records that the handle was given up by a     *)
(* releaseDevice that succeeded and no detectMtp has succeeded since       *)
ReleaseDevice ==
  /\ Idle
  /\ \/ /\ device = Null
        /\ ret' = Err(NO_MTP)
        /\ log' = <<>>
        /\ UNCHANGED <<released, device, faults>>
     \/ /\ device # Null
        /\ device' = Null
        /\ released' = TRUE
        /\ ret' = Ok(TRUE)
        /\ log' = <<Call("Release_Device", W, 0, <<>>, <<>>, 0, <<>>, 0)>>
        /\ UNCHANGED faults
     \/ /\ device # Null
        /\ CanFail(W)
        /\ ret' = Err(THROWN)
        /\ log' = <<Call("Release_Device", W, 0, <<>>, <<>>, THROW, <<>>, 0)>>
        /\ faults' = faults + 1
        /\ UNCHANGED <<released, device>>
  /\ cur' = [fn |-> "releaseDevice"]
  /\ UNCHANGED <<storageId, cwd, store, nextId, stack, ops>>

(* listStorageDevices(): the storages by id *)
listStorageDevices(w) ==
  IF w.device = Null THEN {[w |-> w,
                            r |-> Err(NO_MTP)]}
  ELSE {[w |-> o.w,
         r |-> IF o.thrown THEN Err(THROWN)
               ELSE IF undefinedOrNull(o.res) THEN Err(NO_STORAGE)
               ELSE Ok(o.res[1])]
        : o \in Get_Storage(w)}

ListStorageDevices ==
  /\ Idle
  /\ \E o \in listStorageDevices(W) :
       /\ log' = SubSeq(o.w.log, Len(log) + 1, Len(o.w.log))
       /\ faults' = o.w.faults
       /\ ret' = o.r
  /\ cur' = [fn |-> "listStorageDevices"]
  /\ UNCHANGED <<released, device, storageId, cwd, store, nextId, stack, ops>>

(* Object.keys(listStorageDevicesData)[index]: <<>> for undefined *)
KeyAt(keys, index) == IF index + 1 <= Len(keys) THEN <<keys[index + 1]>> ELSE <<>>

(* lines 801-814: the storage that setStorageDevices selects *)
SelectedStorage(keys, wanted, storageIndex) ==
  IF ~undefinedOrNull(wanted) /\ \E k \in 1..Len(keys) : keys[k] = wanted[1]
    THEN wanted
  ELSE IF ~undefinedOrNull(KeyAt(keys, storageIndex)) THEN KeyAt(keys, storageIndex)
  ELSE KeyAt(keys, 0)

RECURSIVE Marked(_, _)
Marked(keys, selected) ==
  IF keys = <<>> THEN <<>>
  ELSE << [id |-> Head(keys),
           selected |-> <<Head(keys)>> = selected] >> \o Marked(Tail(keys), selected)

(* lines 816-830: the storages with the selected one marked; <<>> for the  *)
(* undefined storageList of a device without storages                     *)
StorageList(keys, selected) ==
  IF keys = <<>> THEN <<>> ELSE <<Marked(keys, selected)>>

StorageIds == {<<>>, <<"65538">>, <<"7">>}

StorageIndexes == {0, 1, 2}

(* setStorageDevices({storageId, storageIndex}) *)
SetStorageDevices ==
  /\ Idle
  /\ \E wanted \in StorageIds, storageIndex \in StorageIndexes :
     \E o \in listStorageDevices(W) :
       /\ log' = SubSeq(o.w.log, Len(log) + 1, Len(o.w.log))
       /\ faults' = o.w.faults
       /\ IF o.r.error # Null
            THEN ret' = Err(o.r.error) /\ UNCHANGED storageId
            ELSE /\ storageId' = SelectedStorage(o.r.data[1], wanted, storageIndex)
                 /\ ret' = [data |-> StorageList(o.r.data[1],
                                                 SelectedStorage(o.r.data[1], wanted, storageIndex)),
                            error |-> Null]
  /\ cur' = [fn |-> "setStorageDevices"]
  /\ UNCHANGED <<released, device, cwd, store, nextId, stack, ops>>

(***************************************************************************)
(* fileExists and downloadFile called on their own                         *)
(***************************************************************************)
(* fileExists({fileName, parentId}) *)
FileExists ==
  /\ Idle
  /\ ops < MaxOps
  /\ ops' = ops + 1
  /\ \E fileName \in {nA, nX}, parentId \in {FILES_AND_FOLDERS_ROOT, 5} :
     \E o \in fileExists([W EXCEPT !.log = <<>>], fileName, parentId) :
       /\ SetW(o.w)
       /\ ret' = o.r
       /\ cur' = [name |-> fileName,
                  parentId |-> parentId,
                  fn |-> "fileExists"]
  /\ UNCHANGED <<released, device, storageId, cwd, stack>>

(* downloadFile({destinationFilePath, file}) for a file node of the device *)
DownloadOneFile ==
  /\ Idle
  /\ ops < MaxOps
  /\ ops' = ops + 1
  /\ \E k \in 1..Len(store) :
     \E o \in downloadFile([W EXCEPT !.log = <<>>], PathJoin(pSrc, store[k].name), store[k]) :
       /\ SetW(o.w)
       /\ ret' = o.r
       /\ cur' = [id |-> store[k].id,
                  fn |-> "downloadFile"]
  /\ UNCHANGED <<released, device, storageId, cwd, stack>>

(***************************************************************************)
(* resolvePath({filePath})                                                 *)
(***************************************************************************)
ResolveFrame(filePath) ==
  [filePath |-> filePath,
   fn |-> "resolvePath",
   pc |-> "entry",
   chunks |-> <<>>,
   foundItem |-> [id |-> FILES_AND_FOLDERS_ROOT],
   i |-> 0]

CallResolvePath ==
  \E filePath \in {<<>>} \cup {<<p>> : p \in FilePaths} :
    Begin(ResolveFrame(filePath), [filePath |-> filePath,
                                   fn |-> "resolvePath"])

(* a resolvePath without its root case *)
IsRootPath_Never(_filePath) == FALSE

(* line 944: the resolved path is the root sentinel *)
IsRootPath(_filePath) == _filePath = pRoot

(* a resolvePath that looks every segment up in the root *)
ResolveNext_KeepsRoot(f, found) == [f EXCEPT !.i = @ + 1]

(* line 972: the match becomes the folder the next segment is looked up in *)
ResolveNext(f, found) == [f EXCEPT !.i = @ + 1, !.foundItem = found]

(* lines 931-952: the guard, the null check, path.resolve, the root case *)
ResolveEntry ==
  /\ Running("resolvePath", "entry")
  /\ IF device = Null THEN Return(Err(NO_MTP))
     ELSE IF undefinedOrNull(Top.filePath) THEN Return(Err(INVALID_PATH_RESOLVE))
     ELSE IF IsRootPath(PathResolve(Top.filePath[1], cwd))
       THEN Return(Ok([id |-> FILES_AND_FOLDERS_ROOT]))
     ELSE Goto([Top EXCEPT !.pc = "loop", !.i = 2,
                           !.chunks = Split(PathResolve(Top.filePath[1], cwd))])
  /\ UNCHANGED <<released, device, storageId, cwd, store, nextId, log, faults, ops, cur>>

(* lines 954-985: one turn of the loop over the segments, or the return *)
ResolveLoop ==
  /\ Running("resolvePath", "loop")
  /\ IF Top.i > Len(Top.chunks)
       THEN Return(Ok(Top.foundItem)) /\ UNCHANGED <<store, nextId, log, faults>>
       ELSE \E o \in listFlat(W, Top.foundItem.id, <<>>, FALSE) :
              /\ SetW(o.w)
              /\ IF o.r.error # Null THEN Return(Err(o.r.error))
                 ELSE IF findLodash(o.r.data[1], Top.chunks[Top.i]) = <<>>
                   THEN Return(Err(INVALID_NOT_FOUND))
                 ELSE Goto(ResolveNext(Top, findLodash(o.r.data[1], Top.chunks[Top.i])[1]))
  /\ UNCHANGED <<released, device, storageId, cwd, ops, cur>>

(***************************************************************************)
(* __listMtpFileTree({folderId, recursive, parentPath, ignoreHiddenFiles}) *)
(* as a frame: the form that recurses                                      *)
(***************************************************************************)
ListFrame(folderId, recursive, parentPath, ignoreHiddenFiles) ==
  [files |-> <<>>,
   folderId |-> folderId,
   parentPath |-> parentPath,
   ignoreHiddenFiles |-> ignoreHiddenFiles,
   fn |-> "__listMtpFileTree",
   pc |-> "entry",
   i |-> 1,
   recursive |-> recursive,
   fileTreeStructure |-> <<>>]

(* lines 1358-1365: the guard and the provider's listing *)
ListEntry ==
  /\ Running("__listMtpFileTree", "entry")
  /\ IF device = Null
       THEN Return(Err(NO_MTP)) /\ UNCHANGED <<store, nextId, log, faults>>
       ELSE \E o \in Get_Files_And_Folders(W, Top.folderId) :
              /\ SetW(o.w)
              /\ IF o.thrown THEN Return(Err(THROWN))
                 ELSE Goto([Top EXCEPT !.pc = "loop", !.files = o.files, !.i = 1])
  /\ UNCHANGED <<released, device, storageId, cwd, ops, cur>>

(* a recursive call that does not pass the folder's path on *)
ListChildFrame_NoParentPath(f, file) ==
  ListFrame(file.id, f.recursive, <<>>, FALSE)

(* the recursive call of line 1397: parentPath and the children array are  *)
(* passed on, ignoreHiddenFiles is not and takes its default               *)
ListChildFrame(f, file) ==
  ListFrame(file.id, f.recursive, PathJoin(f.parentPath, file.name), FALSE)

(* a loop that lists every folder it meets, whatever recursive is *)
ListLoop_AlwaysRecurses ==
  /\ Running("__listMtpFileTree", "loop")
  /\ Len(stack) < MaxDepth
  /\ IF Top.i > Len(Top.files) THEN Return(Ok(Top.fileTreeStructure))
     ELSE LET file == Top.files[Top.i]
              pushed == Append(Top.fileTreeStructure, FileInfo(file, Top.parentPath))
          IN IF Top.ignoreHiddenFiles /\ IsHidden(file.name)
               THEN Goto([Top EXCEPT !.i = @ + 1])
             ELSE IF file.isFolder
               THEN Await([Top EXCEPT !.pc = "child", !.fileTreeStructure = pushed],
                          [ListFrame(file.id, TRUE, PathJoin(Top.parentPath, file.name), FALSE)
                             EXCEPT !.recursive = Top.recursive])
             ELSE Goto([Top EXCEPT !.i = @ + 1, !.fileTreeStructure = pushed])
  /\ UNCHANGED <<released, device, storageId, cwd, store, nextId, log, faults, ops, cur>>

(* a loop that goes no deeper than the folders of the folder it was called *)
(* for                                                                     *)
ListLoop_MaxDepth ==
  /\ Running("__listMtpFileTree", "loop")
  /\ IF Top.i > Len(Top.files) THEN Return(Ok(Top.fileTreeStructure))
     ELSE LET file == Top.files[Top.i]
              pushed == Append(Top.fileTreeStructure, FileInfo(file, Top.parentPath))
          IN IF Top.ignoreHiddenFiles /\ IsHidden(file.name)
               THEN Goto([Top EXCEPT !.i = @ + 1])
             ELSE IF file.isFolder /\ Top.recursive /\ Len(stack) < 3
               THEN Await([Top EXCEPT !.pc = "child", !.fileTreeStructure = pushed],
                          ListChildFrame(Top, file))
             ELSE Goto([Top EXCEPT !.i = @ + 1, !.fileTreeStructure = pushed])
  /\ UNCHANGED <<released, device, storageId, cwd, store, nextId, log, faults, ops, cur>>

(* lines 1367-1409: one turn of the loop over the listing, or the return *)
ListLoop ==
  /\ Running("__listMtpFileTree", "loop")
  /\ Len(stack) < MaxDepth
  /\ IF Top.i > Len(Top.files) THEN Return(Ok(Top.fileTreeStructure))
     ELSE LET file == Top.files[Top.i]
              pushed == Append(Top.fileTreeStructure, FileInfo(file, Top.parentPath))
          IN IF Top.ignoreHiddenFiles /\ IsHidden(file.name)
               THEN Goto([Top EXCEPT !.i = @ + 1])
             ELSE IF file.isFolder /\ Top.recursive
               THEN Await([Top EXCEPT !.pc = "child", !.fileTreeStructure = pushed],
                          ListChildFrame(Top, file))
             ELSE Goto([Top EXCEPT !.i = @ + 1, !.fileTreeStructure = pushed])
  /\ UNCHANGED <<released, device, storageId, cwd, store, nextId, log, faults, ops, cur>>

(* what the recursive call left in the children array it was given: its    *)
(* result when it listed the folder, nothing when it failed before its loop *)
ChildrenFilled(r) == IF r.error = Null THEN r.data[1] ELSE <<>>

(* lines 1397-1403: the awaited recursive call has returned; its result is *)
(* not read                                                                *)
ListChild ==
  /\ Running("__listMtpFileTree", "child")
  /\ Goto([Top EXCEPT !.pc = "loop", !.i = @ + 1,
                      !.fileTreeStructure[Len(Top.fileTreeStructure)].children =
                          ChildrenFilled(ret)])
  /\ UNCHANGED <<released, device, storageId, cwd, store, nextId, log, faults, ops, cur>>

(***************************************************************************)
(* listMtpFileTree({folderPath, recursive, ignoreHiddenFiles})             *)
(***************************************************************************)
REJECTED == "TypeError: promise rejected"

ListPaths == {<<>>, <<pRoot>>, <<Str(<<pRoot, nA>>)>>}

CallListMtpFileTree ==
  \E folderPath \in ListPaths, recursive \in BOOLEAN, ignoreHiddenFiles \in BOOLEAN :
    Begin([filePath |-> <<>>,
           ignoreHiddenFiles |-> ignoreHiddenFiles,
           folderPath |-> folderPath,
           fn |-> "listMtpFileTree",
           pc |-> "entry",
           recursive |-> recursive],
          [ignoreHiddenFiles |-> ignoreHiddenFiles,
           folderPath |-> folderPath,
           fn |-> "listMtpFileTree",
           recursive |-> recursive])

(* lines 1304-1309: path.resolve throws on null outside any try *)
ListMtpEntry ==
  /\ Running("listMtpFileTree", "entry")
  /\ IF undefinedOrNull(Top.folderPath) THEN Return(Err(REJECTED))
     ELSE Await([Top EXCEPT !.pc = "resolved",
                            !.filePath = PathResolve(Top.folderPath[1], cwd)],
                ResolveFrame(<<PathResolve(Top.folderPath[1], cwd)>>))
  /\ UNCHANGED <<released, device, storageId, cwd, store, nextId, log, faults, ops, cur>>

(* lines 1311-1326 *)
ListMtpResolved ==
  /\ Running("listMtpFileTree", "resolved")
  /\ IF ret.error # Null THEN Return(Err(ret.error))
     ELSE Await([Top EXCEPT !.pc = "listed"],
                ListFrame(ret.data[1].id, Top.recursive, Top.filePath, Top.ignoreHiddenFiles))
  /\ UNCHANGED <<released, device, storageId, cwd, store, nextId, log, faults, ops, cur>>

(* lines 1328-1338 *)
ListMtpListed ==
  /\ Running("listMtpFileTree", "listed")
  /\ IF ret.error # Null THEN Return(Err(ret.error)) ELSE Return(Ok(ret.data[1]))
  /\ UNCHANGED <<released, device, storageId, cwd, store, nextId, log, faults, ops, cur>>

(***************************************************************************)
(* listLocalFileTree({folderPath, recursive})                              *)
(***************************************************************************)
LocalFrame(folderPath, recursive) ==
  [files |-> <<>>,
   folderPath |-> folderPath,
   fn |-> "listLocalFileTree",
   pc |-> "entry",
   i |-> 1,
   recursive |-> recursive,
   fileTreeStructure |-> <<>>]

CallListLocalFileTree ==
  \E folderPath \in LocalPaths, recursive \in BOOLEAN :
    Begin(LocalFrame(folderPath, recursive),
          [folderPath |-> folderPath,
           fn |-> "listLocalFileTree",
           recursive |-> recursive])

(* lines 1432-1442: the guard, existsSync and readdirSync *)
LocalListEntry ==
  /\ Running("listLocalFileTree", "entry")
  /\ IF device = Null
       THEN Return(Err(NO_MTP)) /\ UNCHANGED <<store, nextId, log, faults>>
     ELSE IF ~existsSync(Top.folderPath)
       THEN Return(Err(LOCAL_FOLDER_NOT_FOUND)) /\ UNCHANGED <<store, nextId, log, faults>>
     ELSE \E o \in readdirSync(W, Top.folderPath) :
            /\ SetW(o.w)
            /\ IF o.thrown THEN Return(Err(THROWN))
               ELSE Goto([Top EXCEPT !.pc = "loop", !.files = o.files, !.i = 1])
  /\ UNCHANGED <<released, device, storageId, cwd, ops, cur>>

(* a loop that tests the access of the entries of the root call only *)
LocalListLoop_AccessAtRootOnly ==
  /\ Running("listLocalFileTree", "loop")
  /\ IF Top.i > Len(Top.files) THEN Return(Ok(Top.fileTreeStructure))
     ELSE LET file == Top.files[Top.i]
              fullPath == PathJoin(Top.folderPath, file.name)
              pushed == Append(Top.fileTreeStructure,
                               LocalNode(Top.folderPath, file.name, file.isFolder, file.size, <<>>))
          IN IF IsJunk(file.name) \/ (~file.writable /\ Len(stack) = 1)
               THEN Goto([Top EXCEPT !.i = @ + 1])
             ELSE IF file.isFolder /\ Top.recursive
               THEN Await([Top EXCEPT !.pc = "child", !.fileTreeStructure = pushed],
                          LocalFrame(fullPath, Top.recursive))
             ELSE Goto([Top EXCEPT !.i = @ + 1, !.fileTreeStructure = pushed])
  /\ UNCHANGED <<released, device, storageId, cwd, store, nextId, log, faults, ops, cur>>

(* lines 1443-1476: one turn of the loop over the entries, or the return *)
LocalListLoop ==
  /\ Running("listLocalFileTree", "loop")
  /\ IF Top.i > Len(Top.files) THEN Return(Ok(Top.fileTreeStructure))
     ELSE LET file == Top.files[Top.i]
              fullPath == PathJoin(Top.folderPath, file.name)
              pushed == Append(Top.fileTreeStructure,
                               LocalNode(Top.folderPath, file.name, file.isFolder, file.size, <<>>))
          IN IF IsJunk(file.name) \/ ~file.writable
               THEN Goto([Top EXCEPT !.i = @ + 1])
             ELSE IF file.isFolder /\ Top.recursive
               THEN Await([Top EXCEPT !.pc = "child", !.fileTreeStructure = pushed],
                          LocalFrame(fullPath, Top.recursive))
             ELSE Goto([Top EXCEPT !.i = @ + 1, !.fileTreeStructure = pushed])
  /\ UNCHANGED <<released, device, storageId, cwd, store, nextId, log, faults, ops, cur>>

(* lines 1463-1467: the awaited recursive call has returned; its result is *)
(* not read                                                                *)
LocalListChild ==
  /\ Running("listLocalFileTree", "child")
  /\ Goto([Top EXCEPT !.pc = "loop", !.i = @ + 1,
                      !.fileTreeStructure[Len(Top.fileTreeStructure)].children =
                          ChildrenFilled(ret)])
  /\ UNCHANGED <<released, device, storageId, cwd, store, nextId, log, faults, ops, cur>>

(***************************************************************************)
(* createFolder({newFolderName, parentId}) called by the user              *)
(***************************************************************************)
CallCreateFolder ==
  \E newFolderName \in {nA, nX} :
    Begin([parentId |-> FILES_AND_FOLDERS_ROOT,
           newFolderName |-> newFolderName,
           fn |-> "createFolder",
           pc |-> "entry"],
          [parentId |-> FILES_AND_FOLDERS_ROOT,
           newFolderName |-> newFolderName,
           fn |-> "createFolder"])

CreateFolderRun ==
  /\ Running("createFolder", "entry")
  /\ \E o \in createFolder(W, Top.newFolderName, Top.parentId) :
       SetW(o.w) /\ Return(o.r)
  /\ UNCHANGED <<released, device, storageId, cwd, ops, cur>>

(***************************************************************************)
(* uploadFileTree({nodes, folderPath, parentId})                           *)
(***************************************************************************)
UploadFrame(nodes, parentId, folderPath) ==
  [parentId |-> parentId,
   folderPath |-> folderPath,
   fn |-> "uploadFileTree",
   pc |-> "entry",
   i |-> 1,
   found |-> 0,
   nodes |-> nodes]

UploadTargets ==
  { [parentId |-> <<FILES_AND_FOLDERS_ROOT>>,
     folderPath |-> <<>>],
    [parentId |-> <<>>,
     folderPath |-> <<Str(<<pRoot, nA>>)>>],
    [parentId |-> <<>>,
     folderPath |-> <<Str(<<pRoot, nX>>)>>] }

CallUploadFileTree ==
  \E nodes \in SourceTrees, t \in UploadTargets :
    Begin(UploadFrame(nodes, t.parentId, t.folderPath),
          [parentId |-> t.parentId,
           folderPath |-> t.folderPath,
           fn |-> "uploadFileTree",
           nodes |-> nodes])

(* a loop that takes the nodes from the last to the first *)
Item_Reversed == Top.nodes[Len(Top.nodes) + 1 - Top.i]

Item == Top.nodes[Top.i]

(* lines 1680-1691: the guard, and the resolution of folderPath when given *)
UploadEntry ==
  /\ Running("uploadFileTree", "entry")
  /\ IF device = Null THEN Return(Err(NO_MTP))
     ELSE IF ~undefinedOrNull(Top.folderPath)
       THEN Await([Top EXCEPT !.pc = "resolved"],
                  ResolveFrame(<<PathResolve(Top.folderPath[1], cwd)>>))
     ELSE Goto([Top EXCEPT !.pc = "loop"])
  /\ UNCHANGED <<released, device, storageId, cwd, store, nextId, log, faults, ops, cur>>

(* lines 1693-1700 *)
UploadResolved ==
  /\ Running("uploadFileTree", "resolved")
  /\ IF ret.error # Null THEN Return(Err(ret.error))
     ELSE Goto([Top EXCEPT !.pc = "loop", !.parentId = <<ret.data[1].id>>])
  /\ UNCHANGED <<released, device, storageId, cwd, store, nextId, log, faults, ops, cur>>

(* lines 1781-1784: the loop is over *)
UploadFinish ==
  /\ Running("uploadFileTree", "loop")
  /\ Top.i > Len(Top.nodes)
  /\ Return(Ok(TRUE))
  /\ UNCHANGED <<released, device, storageId, cwd, store, nextId, log, faults, ops, cur>>

(* an uploadFileTree that hands its recursive call the path of the folder  *)
(* to resolve, not the id createFolder returned                            *)
UploadFolder_PassesPath ==
  /\ Running("uploadFileTree", "loop")
  /\ Top.i <= Len(Top.nodes)
  /\ Item.isFolder
  /\ \E o \in createFolder(W, Item.name, Top.parentId[1]) :
       /\ SetW(o.w)
       /\ IF o.r.error # Null THEN Return(Err(o.r.error))
          ELSE Await([Top EXCEPT !.pc = "child"],
                     UploadFrame(Item.children, <<>>,
                                 <<PathJoin(IF Top.folderPath = <<>> THEN pRoot
                                            ELSE Top.folderPath[1], Item.name)>>))
  /\ UNCHANGED <<released, device, storageId, cwd, ops, cur>>

(* lines 1706-1726: a folder node; createFolder, then the recursive call *)
UploadFolder ==
  /\ Running("uploadFileTree", "loop")
  /\ Top.i <= Len(Top.nodes)
  /\ Item.isFolder
  /\ \E o \in createFolder(W, Item.name, Top.parentId[1]) :
       /\ SetW(o.w)
       /\ IF o.r.error # Null THEN Return(Err(o.r.error))
          ELSE Await([Top EXCEPT !.pc = "child"],
                     UploadFrame(Item.children, <<o.r.data[1]>>, <<>>))
  /\ UNCHANGED <<released, device, storageId, cwd, ops, cur>>

(* an uploadFileTree that does not read the result of its recursive call *)
UploadChild_IgnoresError ==
  /\ Running("uploadFileTree", "child")
  /\ Goto([Top EXCEPT !.pc = "loop", !.i = @ + 1])
  /\ UNCHANGED <<released, device, storageId, cwd, store, nextId, log, faults, ops, cur>>

(* lines 1728-1735: the recursive call has returned *)
UploadChild ==
  /\ Running("uploadFileTree", "child")
  /\ IF ret.error # Null THEN Return(Err(ret.error))
     ELSE Goto([Top EXCEPT !.pc = "loop", !.i = @ + 1])
  /\ UNCHANGED <<released, device, storageId, cwd, store, nextId, log, faults, ops, cur>>

(* an uploadFileTree that deletes the entry it found only when it is a file *)
AfterFileExists_FilesOnly(f, fileExistsData) ==
  IF Truthy(fileExistsData) /\ ~fileExistsData.isFolder
    THEN [f EXCEPT !.pc = "delete", !.found = fileExistsData.id]
    ELSE [f EXCEPT !.pc = "upload"]

(* an uploadFileTree that uploads without deleting the entry it found *)
AfterFileExists_NoDelete(f, fileExistsData) == [f EXCEPT !.pc = "upload"]

(* line 1753: what follows the lookup of a file node's name *)
AfterFileExists(f, fileExistsData) ==
  IF Truthy(fileExistsData)
    THEN [f EXCEPT !.pc = "delete", !.found = fileExistsData.id]
    ELSE [f EXCEPT !.pc = "upload"]

(* lines 1738-1753: a file node; the lookup of its name under the parent *)
UploadFile ==
  /\ Running("uploadFileTree", "loop")
  /\ Top.i <= Len(Top.nodes)
  /\ ~Item.isFolder
  /\ \E o \in fileExists(W, Item.name, Top.parentId[1]) :
       /\ SetW(o.w)
       /\ IF o.r.error # Null THEN Return(Err(o.r.error))
          ELSE Goto(AfterFileExists(Top, o.r.data[1]))
  /\ UNCHANGED <<released, device, storageId, cwd, ops, cur>>

(* lines 1754-1764: the entry of that name is deleted *)
UploadDelete ==
  /\ Running("uploadFileTree", "delete")
  /\ \E o \in deleteFile(W, Top.found) :
       /\ SetW(o.w)
       /\ IF o.r.error # Null THEN Return(Err(o.r.error))
          ELSE Goto([Top EXCEPT !.pc = "upload"])
  /\ UNCHANGED <<released, device, storageId, cwd, ops, cur>>

(* an uploadFileTree that puts the entry it deleted back when the transfer *)
(* fails                                                                   *)
UploadSend_PutsBack ==
  /\ Running("uploadFileTree", "upload")
  /\ \E o \in uploadFile(W, Item.path, Top.parentId[1], Item.size) :
       /\ nextId' = o.w.nextId
       /\ log' = o.w.log
       /\ faults' = o.w.faults
       /\ IF o.r.error # Null
            THEN /\ Return(Err(o.r.error))
                 /\ store' = IF Top.found = 0 THEN o.w.store
                              ELSE Append(o.w.store,
                                          Entry(Top.found, Item.name, FALSE, Item.size, Top.parentId[1]))
            ELSE /\ Goto([Top EXCEPT !.pc = "loop", !.i = @ + 1])
                 /\ store' = o.w.store
  /\ UNCHANGED <<released, device, storageId, cwd, ops, cur>>

(* an uploadFileTree that sends a file again when the transfer failed *)
UploadSend_Retries ==
  /\ Running("uploadFileTree", "upload")
  /\ \E o \in uploadFile(W, Item.path, Top.parentId[1], Item.size) :
       /\ SetW(o.w)
       /\ IF o.r.error # Null THEN Goto(Top)
          ELSE Goto([Top EXCEPT !.pc = "loop", !.i = @ + 1])
  /\ UNCHANGED <<released, device, storageId, cwd, ops, cur>>

(* lines 1766-1778: the bytes are sent *)
UploadSend ==
  /\ Running("uploadFileTree", "upload")
  /\ \E o \in uploadFile(W, Item.path, Top.parentId[1], Item.size) :
       /\ SetW(o.w)
       /\ IF o.r.error # Null THEN Return(Err(o.r.error))
          ELSE Goto([Top EXCEPT !.pc = "loop", !.i = @ + 1])
  /\ UNCHANGED <<released, device, storageId, cwd, ops, cur>>

(***************************************************************************)
(* downloadFileTree({rootNode, nodes, destinationFilePath})                *)
(***************************************************************************)
DownloadFrame(rootNode, nodes, destinationFilePath) ==
  [destinationFilePath |-> destinationFilePath,
   fn |-> "downloadFileTree",
   pc |-> "entry",
   i |-> 1,
   nodes |-> nodes,
   rootNode |-> rootNode]

CallDownloadFileTree ==
  \E nodes \in {<<>>, TreeOf(store, FILES_AND_FOLDERS_ROOT, pRoot)}, rootNode \in BOOLEAN :
    Begin(DownloadFrame(rootNode, nodes, pOut),
          [destinationFilePath |-> pOut,
           fn |-> "downloadFileTree",
           nodes |-> nodes,
           rootNode |-> rootNode])

(* a downloadFileTree that refuses every empty node list *)
DownloadEntry_EmptyAlwaysFails ==
  /\ Running("downloadFileTree", "entry")
  /\ IF device = Null THEN Return(Err(NO_MTP))
     ELSE IF Len(Top.nodes) < 1 THEN Return(Err(NO_FILES_COPIED))
     ELSE Goto([Top EXCEPT !.pc = "loop"])
  /\ UNCHANGED <<released, device, storageId, cwd, store, nextId, log, faults, ops, cur>>

(* lines 1544-1552 *)
DownloadEntry ==
  /\ Running("downloadFileTree", "entry")
  /\ IF device = Null THEN Return(Err(NO_MTP))
     ELSE IF Top.rootNode /\ Len(Top.nodes) < 1 THEN Return(Err(NO_FILES_COPIED))
     ELSE Goto([Top EXCEPT !.pc = "loop"])
  /\ UNCHANGED <<released, device, storageId, cwd, store, nextId, log, faults, ops, cur>>

(* lines 1600-1603 *)
DownloadFinish ==
  /\ Running("downloadFileTree", "loop")
  /\ Top.i > Len(Top.nodes)
  /\ Return(Ok(TRUE))
  /\ UNCHANGED <<released, device, storageId, cwd, store, nextId, log, faults, ops, cur>>

(* a local path made of the root call's destination and the node's name *)
localFilePath_Flat == PathJoin(pOut, Item.name)

(* line 1556 *)
localFilePath == PathJoin(Top.destinationFilePath, Item.name)

(* lines 1558-1574: a folder node; mkdirp, then the recursive call *)
DownloadFolder ==
  /\ Running("downloadFileTree", "loop")
  /\ Top.i <= Len(Top.nodes)
  /\ Item.isFolder
  /\ \E o \in promisifiedMkdir(W, localFilePath) :
       /\ SetW(o.w)
       /\ IF o.error # Null THEN Return(Err(o.error))
          ELSE Await([Top EXCEPT !.pc = "child"],
                     DownloadFrame(FALSE, Item.children, localFilePath))
  /\ UNCHANGED <<released, device, storageId, cwd, ops, cur>>

(* a downloadFileTree that does not read the result of its recursive call *)
DownloadChild_IgnoresError ==
  /\ Running("downloadFileTree", "child")
  /\ Goto([Top EXCEPT !.pc = "loop", !.i = @ + 1])
  /\ UNCHANGED <<released, device, storageId, cwd, store, nextId, log, faults, ops, cur>>

(* lines 1576-1583: the recursive call has returned *)
DownloadChild ==
  /\ Running("downloadFileTree", "child")
  /\ IF ret.error # Null THEN Return(Err(ret.error))
     ELSE Goto([Top EXCEPT !.pc = "loop", !.i = @ + 1])
  /\ UNCHANGED <<released, device, storageId, cwd, store, nextId, log, faults, ops, cur>>

(* lines 1586-1597: a file node *)
DownloadFile ==
  /\ Running("downloadFileTree", "loop")
  /\ Top.i <= Len(Top.nodes)
  /\ ~Item.isFolder
  /\ \E o \in downloadFile(W, localFilePath, Item) :
       /\ SetW(o.w)
       /\ IF o.r.error # Null THEN Return(Err(o.r.error))
          ELSE Goto([Top EXCEPT !.i = @ + 1])
  /\ UNCHANGED <<released, device, storageId, cwd, ops, cur>>

Next ==
  \/ DetectMtp
  \/ ReleaseDevice
  \/ ListStorageDevices
  \/ SetStorageDevices
  \/ FileExists
  \/ DownloadOneFile
  \/ CallResolvePath
  \/ ResolveEntry
  \/ ResolveLoop
  \/ CallListMtpFileTree
  \/ ListMtpEntry
  \/ ListMtpResolved
  \/ ListMtpListed
  \/ ListEntry
  \/ ListLoop
  \/ ListChild
  \/ CallListLocalFileTree
  \/ LocalListEntry
  \/ LocalListLoop
  \/ LocalListChild
  \/ CallCreateFolder
  \/ CreateFolderRun
  \/ CallUploadFileTree
  \/ UploadEntry
  \/ UploadResolved
  \/ UploadFinish
  \/ UploadFolder
  \/ UploadChild
  \/ UploadFile
  \/ UploadDelete
  \/ UploadSend
  \/ CallDownloadFileTree
  \/ DownloadEntry
  \/ DownloadFinish
  \/ DownloadFolder
  \/ DownloadChild
  \/ DownloadFile

Spec == Init /\ [][Next]_vars

(***************************************************************************)
(* The operations on one entry: getFileInfo, deleteFile, renameFile and    *)
(* createFolder({newFolderPath}), with releaseDevice called by another     *)
(* party while one of them waits for the call it awaits                    *)
(***************************************************************************)
nBlank == <<" ">>
nSlash == <<"x", "/", "b">>

(* newfileName: null, 'x', ' ', 'x/b' and '' *)
NewNames == {<<>>, <<nX>>, <<nBlank>>, <<nSlash>>, << <<>> >>}

EntryPaths ==
  { Str(<<pRoot, nA>>),
    Str(<<pRoot, nA, <<"/">>, nB>>),
    Str(<<pRoot, nX>>) }

EntryIds == {5, 9}

(* an entry is named by its path or by its id *)
EntryTargets ==
  {[fileId |-> <<>>,
    filePath |-> <<p>>] : p \in EntryPaths}
  \cup {[fileId |-> <<id>>,
         filePath |-> <<>>] : id \in EntryIds}

NewFolderPaths ==
  { Str(<<pRoot, nX>>),
    Str(<<pRoot, nA, <<"/">>, nB>>),
    Str(<<pRoot, nX, <<"/">>, nB>>) }

EntryFrame(fn, t) ==
  [fileId |-> t.fileId,
   filePath |-> t.filePath,
   fn |-> fn,
   pc |-> "entry"]

EntryArgs(fn, t) ==
  [fileId |-> t.fileId,
   filePath |-> t.filePath,
   fn |-> fn]

(* getFileInfo({filePath, fileId}) *)
CallGetFileInfo ==
  \E t \in EntryTargets : Begin(EntryFrame("getFileInfo", t), EntryArgs("getFileInfo", t))

(* lines 877-914: the guard; the path is resolved, or the id is looked up *)
GetFileInfoEntry ==
  /\ Running("getFileInfo", "entry")
  /\ IF ~undefinedOrNull(Top.filePath) /\ device # Null
       THEN /\ Await([Top EXCEPT !.pc = "resolved"], ResolveFrame(Top.filePath))
            /\ UNCHANGED <<store, nextId, log, faults>>
       ELSE \E o \in getFileInfo(W, Top.fileId[1]) :
              SetW(o.w) /\ Return(o.r)
  /\ UNCHANGED <<released, device, storageId, cwd, ops, cur>>

(* lines 886-896 *)
GetFileInfoResolved ==
  /\ Running("getFileInfo", "resolved")
  /\ IF ret.error # Null THEN Return(Err(ret.error)) ELSE Return(Ok(ret.data[1]))
  /\ UNCHANGED <<released, device, storageId, cwd, store, nextId, log, faults, ops, cur>>

(* deleteFile({filePath, fileId}) *)
CallDeleteFile ==
  \E t \in EntryTargets : Begin(EntryFrame("deleteFile", t), EntryArgs("deleteFile", t))

(* lines 1089-1094: Destroy_file; its status is not read *)
DeleteStep(fileId) ==
  \E o \in Destroy_file(W, fileId) :
    SetW(o.w) /\ Return(IF o.thrown THEN Err(THROWN) ELSE Ok(TRUE))

(* lines 1070-1080: the guard; the path is resolved, or the id is deleted *)
DeleteFileEntry ==
  /\ Running("deleteFile", "entry")
  /\ IF device = Null
       THEN Return(Err(NO_MTP)) /\ UNCHANGED <<store, nextId, log, faults>>
     ELSE IF ~undefinedOrNull(Top.filePath)
       THEN /\ Await([Top EXCEPT !.pc = "resolved"], ResolveFrame(Top.filePath))
            /\ UNCHANGED <<store, nextId, log, faults>>
     ELSE DeleteStep(Top.fileId[1])
  /\ UNCHANGED <<released, device, storageId, cwd, ops, cur>>

(* lines 1081-1094: resolvePath has returned; no second guard *)
DeleteFileResolved ==
  /\ Running("deleteFile", "resolved")
  /\ IF ret.error # Null
       THEN Return(Err(ret.error)) /\ UNCHANGED <<store, nextId, log, faults>>
       ELSE DeleteStep(ret.data[1].id)
  /\ UNCHANGED <<released, device, storageId, cwd, ops, cur>>

(* a test of the new name that lets a path separator through *)
IllegalName_SlashAllowed(newfileName) ==
  \/ undefinedOrNull(newfileName)
  \/ Trim(newfileName[1]) = <<>>

(* lines 1117-1121 *)
IllegalName(newfileName) ==
  \/ undefinedOrNull(newfileName)
  \/ HasSlash(newfileName[1])
  \/ Trim(newfileName[1]) = <<>>

(* renameFile({filePath, newfileName, fileId}) *)
CallRenameFile ==
  \E t \in EntryTargets, newfileName \in NewNames :
    Begin([fileId |-> t.fileId,
           newfileName |-> newfileName,
           filePath |-> t.filePath,
           fn |-> "renameFile",
           pc |-> "entry"],
          [fileId |-> t.fileId,
           newfileName |-> newfileName,
           filePath |-> t.filePath,
           fn |-> "renameFile"])

(* lines 1158-1163: the verdict on the name that getFileInfo read again *)
renameChecked(g, newfileName) ==
  IF g.r.error = Null /\ g.r.data[1].name # newfileName THEN Err(RENAME_FAILED)
  ELSE Ok(TRUE)

(* lines 1142-1169: Set_File_Name; the name is read again when the status  *)
(* is not 0                                                                *)
RenameStep(fileId) ==
  \E o \in Set_File_Name(W, fileId, Top.newfileName[1]) :
    IF o.thrown THEN SetW(o.w) /\ Return(Err(THROWN))
    ELSE IF o.res # 0
      THEN \E g \in getFileInfo(o.w, fileId) :
             SetW(g.w) /\ Return(renameChecked(g, Top.newfileName[1]))
    ELSE SetW(o.w) /\ Return(Ok(TRUE))

(* lines 1114-1131: the guard, the test of the new name; the path is       *)
(* resolved, or the id is renamed                                          *)
RenameFileEntry ==
  /\ Running("renameFile", "entry")
  /\ IF device = Null
       THEN Return(Err(NO_MTP)) /\ UNCHANGED <<store, nextId, log, faults>>
     ELSE IF IllegalName(Top.newfileName)
       THEN Return(Err(ILLEGAL_FILE_NAME)) /\ UNCHANGED <<store, nextId, log, faults>>
     ELSE IF ~undefinedOrNull(Top.filePath)
       THEN /\ Await([Top EXCEPT !.pc = "resolved"], ResolveFrame(Top.filePath))
            /\ UNCHANGED <<store, nextId, log, faults>>
     ELSE RenameStep(Top.fileId[1])
  /\ UNCHANGED <<released, device, storageId, cwd, ops, cur>>

(* lines 1132-1169: resolvePath has returned; no second guard *)
RenameFileResolved ==
  /\ Running("renameFile", "resolved")
  /\ IF ret.error # Null
       THEN Return(Err(ret.error)) /\ UNCHANGED <<store, nextId, log, faults>>
       ELSE RenameStep(ret.data[1].id)
  /\ UNCHANGED <<released, device, storageId, cwd, ops, cur>>

(* createFolder({newFolderPath}) *)
CallCreateFolderAt ==
  \E newFolderPath \in NewFolderPaths :
    Begin([newFolderPath |-> newFolderPath,
           fn |-> "createFolder",
           pc |-> "path"],
          [newFolderPath |-> newFolderPath,
           fn |-> "createFolder"])

(* lines 1196-1212: the guard, path.resolve, and the resolution of the     *)
(* parent's path                                                           *)
CreateFolderAtEntry ==
  /\ Running("createFolder", "path")
  /\ IF device = Null THEN Return(Err(NO_MTP))
     ELSE Await([Top EXCEPT !.pc = "resolved"],
                ResolveFrame(<<PathDirname(PathResolve(Top.newFolderPath, cwd))>>))
  /\ UNCHANGED <<released, device, storageId, cwd, store, nextId, log, faults, ops, cur>>

(* lines 1214-1283: resolvePath has returned; no second guard *)
CreateFolderAtResolved ==
  /\ Running("createFolder", "resolved")
  /\ IF ret.error # Null
       THEN Return(Err(ret.error)) /\ UNCHANGED <<store, nextId, log, faults>>
       ELSE \E o \in createFolderCalled(W, PathBasename(PathResolve(Top.newFolderPath, cwd)),
                                        ret.data[1].id) :
              SetW(o.w) /\ Return(o.r)
  /\ UNCHANGED <<released, device, storageId, cwd, ops, cur>>

(* releaseDevice() called while an operation is waiting *)
ReleaseInFlight ==
  /\ ~Idle
  /\ \/ /\ device = Null
        /\ UNCHANGED <<released, device, log, faults>>
     \/ /\ device # Null
        /\ device' = Null
        /\ released' = TRUE
        /\ log' = Append(log, Call("Release_Device", W, 0, <<>>, <<>>, 0, <<>>, 0))
        /\ UNCHANGED faults
     \/ /\ device # Null
        /\ CanFail(W)
        /\ log' = Append(log, Call("Release_Device", W, 0, <<>>, <<>>, THROW, <<>>, 0))
        /\ faults' = faults + 1
        /\ UNCHANGED <<released, device>>
  /\ UNCHANGED <<storageId, cwd, store, nextId, stack, ret, ops, cur>>

NextEntries ==
  \/ DetectMtp
  \/ ReleaseInFlight
  \/ ResolveEntry
  \/ ResolveLoop
  \/ CallGetFileInfo
  \/ GetFileInfoEntry
  \/ GetFileInfoResolved
  \/ CallDeleteFile
  \/ DeleteFileEntry
  \/ DeleteFileResolved
  \/ CallRenameFile
  \/ RenameFileEntry
  \/ RenameFileResolved
  \/ CallCreateFolderAt
  \/ CreateFolderAtEntry
  \/ CreateFolderAtResolved

SpecEntries == Init /\ [][NextEntries]_vars

(***************************************************************************)
(* uploadFileTree called again and again with the same nodes and the same  *)
(* destination, on a provider that does not fail: a third specification.   *)
(* cur.run counts the calls, cur.start is the store before the call before *)
(* this one, cur.prev the store that call left and cur.prevRet its result. *)
(***************************************************************************)
MaxRuns == 2

(* no provider failure is left to happen *)
InitTwice ==
  /\ device = Null
  /\ storageId = <<>>
  /\ cwd \in Cwds
  /\ store \in InitStores
  /\ nextId = 10
  /\ stack = <<>>
  /\ ret = NoRet
  /\ log = <<>>
  /\ faults = MaxFaults
  /\ ops = 0
  /\ cur = [fn |-> "none"]
  /\ released = FALSE

(* await mtp.uploadFileTree({nodes, folderPath, parentId}), the first time *)
CallUploadFirst ==
  /\ Idle
  /\ ops = 0
  /\ \E nodes \in SourceTrees, t \in UploadTargets :
       /\ stack' = <<UploadFrame(nodes, t.parentId, t.folderPath)>>
       /\ cur' = [parentId |-> t.parentId,
                  folderPath |-> t.folderPath,
                  fn |-> "uploadFileTree",
                  nodes |-> nodes,
                  run |-> 1,
                  start |-> store,
                  prev |-> store,
                  prevRet |-> NoRet]
  /\ ops' = 1
  /\ ret' = NoRet
  /\ log' = <<>>
  /\ UNCHANGED <<released, device, storageId, cwd, store, nextId, faults>>

(* the same call once more, when the one before it has returned *)
CallUploadAgain ==
  /\ Done
  /\ cur.fn = "uploadFileTree"
  /\ ops < MaxRuns
  /\ stack' = <<UploadFrame(cur.nodes, cur.parentId, cur.folderPath)>>
  /\ cur' = [cur EXCEPT !.run = @ + 1,
                        !.start = cur.prev,
                        !.prev = store,
                        !.prevRet = ret]
  /\ ops' = ops + 1
  /\ ret' = NoRet
  /\ log' = <<>>
  /\ UNCHANGED <<released, device, storageId, cwd, store, nextId, faults>>

NextTwice ==
  \/ DetectMtp
  \/ CallUploadFirst
  \/ CallUploadAgain
  \/ ResolveEntry
  \/ ResolveLoop
  \/ UploadEntry
  \/ UploadResolved
  \/ UploadFinish
  \/ UploadFolder
  \/ UploadChild
  \/ UploadFile
  \/ UploadDelete
  \/ UploadSend

SpecTwice == InitTwice /\ [][NextTwice]_vars

(***************************************************************************)
(* downloadFileTree on the tree of a device that reports names of its own  *)
(* choosing: a fourth specification.                                       *)
(***************************************************************************)
nDotDot == <<".", ".">>
nUpC == <<".", ".", "/", "c">>

(* root: folder .. (5), file ../c (3), folder a (6); ..: file b (9); a: file b (7) *)
StoreDots ==
  << Entry(5, nDotDot, TRUE, 0, FILES_AND_FOLDERS_ROOT),
     Entry(3, nUpC, FALSE, 1, FILES_AND_FOLDERS_ROOT),
     Entry(6, nA, TRUE, 0, FILES_AND_FOLDERS_ROOT),
     Entry(9, nB, FALSE, 120, 5),
     Entry(7, nB, FALSE, 4, 6) >>

InitNames ==
  /\ device = Null
  /\ storageId = <<>>
  /\ cwd \in Cwds
  /\ store \in {StoreNested, StoreHidden, StoreDots}
  /\ nextId = 10
  /\ stack = <<>>
  /\ ret = NoRet
  /\ log = <<>>
  /\ faults = 0
  /\ ops = 0
  /\ cur = [fn |-> "none"]
  /\ released = FALSE

NextNames ==
  \/ DetectMtp
  \/ CallDownloadFileTree
  \/ DownloadEntry
  \/ DownloadFinish
  \/ DownloadFolder
  \/ DownloadChild
  \/ DownloadFile

SpecNames == InitNames /\ [][NextNames]_vars

(***************************************************************************)
(* listMtpFileTree on a device that reports a folder among its own         *)
(* descendants, and on devices that do not: a fifth specification, with    *)
(* every step that can be taken taken in the end.                          *)
(***************************************************************************)
(* root: folder a (5), file c (3); a: folder a (5) again, file b (9) *)
StoreLoop ==
  << Entry(5, nA, TRUE, 0, FILES_AND_FOLDERS_ROOT),
     Entry(3, nC, FALSE, 1, FILES_AND_FOLDERS_ROOT),
     Entry(5, nA, TRUE, 0, 5),
     Entry(9, nB, FALSE, 120, 5) >>

InitDeep ==
  /\ device = Null
  /\ storageId = <<>>
  /\ cwd \in Cwds
  /\ store \in {<<>>, StoreNested, StoreHidden, StoreLoop}
  /\ nextId = 10
  /\ stack = <<>>
  /\ ret = NoRet
  /\ log = <<>>
  /\ faults = 0
  /\ ops = 0
  /\ cur = [fn |-> "none"]
  /\ released = FALSE

NextDeep ==
  \/ DetectMtp
  \/ CallListMtpFileTree
  \/ ListMtpEntry
  \/ ListMtpResolved
  \/ ListMtpListed
  \/ ResolveEntry
  \/ ResolveLoop
  \/ ListEntry
  \/ ListLoop
  \/ ListChild

(* the folder of the store's k-th entry is listed among its own descendants *)
OwnDescendant(st, k) ==
  \E j \in 1..Len(st) :
    st[j].id = st[k].id /\ st[j].parentId \in Descendants(st, {st[k].id})

(* below the folder top the device reports a folder among its own          *)
(* descendants                                                             *)
CycleBelow(st, top) ==
  \E k \in 1..Len(st) :
    st[k].isFolder /\ st[k].id \in Descendants(st, {top}) \ {top} /\ OwnDescendant(st, k)

Cyclic(st) == \E k \in 1..Len(st) : st[k].isFolder /\ OwnDescendant(st, k)

(* the event loop runs every continuation that is ready; the steps of an   *)
(* enumeration that never ends are not promised to be fair                 *)
SpecDeep == InitDeep /\ [][NextDeep]_vars /\ WF_vars(~Cyclic(store) /\ NextDeep)

(***************************************************************************)
(* setStorageDevices with the storageId given as a string or as a number   *)
(* (the parameter is documented as an int, the keys of the storages are    *)
(* strings): a sixth specification.  The number 65538 is written n65538.   *)
(***************************************************************************)
NumberIds == {"n65538", "n7"}

(* the property key a value is turned into by obj[value] *)
ToKey(v) ==
  CASE v = "n65538" -> "65538"
    [] v = "n7" -> "7"
    [] OTHER -> v

(* lines 801-814 with the lookup listStorageDevicesData[storageId], which  *)
(* turns a number into its key; the value stored is the one given          *)
SelectedStorageOf(keys, wanted, storageIndex) ==
  IF ~undefinedOrNull(wanted) /\ \E k \in 1..Len(keys) : keys[k] = ToKey(wanted[1])
    THEN wanted
  ELSE IF ~undefinedOrNull(KeyAt(keys, storageIndex)) THEN KeyAt(keys, storageIndex)
  ELSE KeyAt(keys, 0)

StorageIdsOf == StorageIds \cup {<<v>> : v \in NumberIds}

(* setStorageDevices({storageId, storageIndex}) *)
SetStorageDevicesOf ==
  /\ Idle
  /\ \E wanted \in StorageIdsOf, storageIndex \in StorageIndexes :
     \E o \in listStorageDevices(W) :
       /\ log' = SubSeq(o.w.log, Len(log) + 1, Len(o.w.log))
       /\ faults' = o.w.faults
       /\ IF o.r.error # Null
            THEN ret' = Err(o.r.error) /\ UNCHANGED storageId
            ELSE /\ storageId' = SelectedStorageOf(o.r.data[1], wanted, storageIndex)
                 /\ ret' = [data |-> StorageList(o.r.data[1],
                                                 SelectedStorageOf(o.r.data[1], wanted, storageIndex)),
                            error |-> Null]
       /\ cur' = [storageId |-> wanted,
                  fn |-> "setStorageDevices",
                  keys |-> IF o.r.error # Null THEN <<>> ELSE o.r.data[1],
                  storageIndex |-> storageIndex]
  /\ UNCHANGED <<released, device, cwd, store, nextId, stack, ops>>

NextStorage ==
  \/ DetectMtp
  \/ ReleaseDevice
  \/ ListStorageDevices
  \/ SetStorageDevicesOf

SpecStorage == Init /\ [][NextStorage]_vars


(***************************************************************************)
(* The first MTP class of the file, lines 60-530                           *)
(***************************************************************************)
(* no value: what an async method resolves with when its body ends *)
Undefined == [data |-> <<>>, error |-> "undefined"]

(* lines 81-128: detectMtp *)
LegacyDetectMtp ==
  /\ Idle
  /\ \/ device' = "device" /\ ret' = Ok("device") /\ released' = FALSE
     \/ device' = Null /\ ret' = Err(NO_MTP) /\ UNCHANGED released
  /\ cur' = [fn |-> "legacy.detectMtp"]
  /\ log' = <<>>
  /\ UNCHANGED <<storageId, cwd, store, nextId, stack, faults, ops>>

(* lines 219-236: releaseDevice; Release_Device is called and this.device  *)
(* keeps the handle, whether the call returns or throws                    *)
LegacyReleaseDevice ==
  /\ Idle
  /\ \/ /\ device = Null
        /\ ret' = Err(NO_MTP)
        /\ log' = <<>>
        /\ UNCHANGED <<released, faults>>
     \/ /\ device # Null
        /\ released' = TRUE
        /\ ret' = [data |-> <<>>, error |-> Null]
        /\ log' = <<Call("Release_Device", W, 0, <<>>, <<>>, 0, <<>>, 0)>>
        /\ UNCHANGED faults
     \/ /\ device # Null
        /\ CanFail(W)
        /\ faults' = faults + 1
        /\ ret' = Err(THROWN)
        /\ log' = <<Call("Release_Device", W, 0, <<>>, <<>>, THROW, <<>>, 0)>>
        /\ UNCHANGED released
  /\ cur' = [fn |-> "legacy.releaseDevice"]
  /\ UNCHANGED <<device, storageId, cwd, store, nextId, stack, ops>>

(* lines 258-262: deleteFile resolves with the status of Destroy_file *)
LegacyDeleteFile ==
  /\ Idle
  /\ ops < MaxOps
  /\ ops' = ops + 1
  /\ \E fileId \in {3, 9} :
       /\ cur' = [fileId |-> fileId, fn |-> "legacy.deleteFile"]
       /\ IF device = Null
            THEN ret' = Err(NO_MTP) /\ log' = <<>> /\ UNCHANGED <<store, nextId, faults>>
            ELSE \E o \in Destroy_file([W EXCEPT !.log = <<>>], fileId) :
                   /\ SetW(o.w)
                   /\ ret' = IF o.thrown THEN Err(THROWN) ELSE Ok(o.res)
  /\ UNCHANGED <<released, device, storageId, cwd, stack>>

LegacyListFrame(folderId, recursive, parentPath) ==
  [files |-> <<>>,
   folderId |-> folderId,
   parentPath |-> parentPath,
   fn |-> "legacy.listMtpFileTree",
   pc |-> "entry",
   i |-> 1,
   recursive |-> recursive,
   fileTreeStructure |-> <<>>]

CallLegacyListMtpFileTree ==
  \E folderId \in {FILES_AND_FOLDERS_ROOT, 5}, recursive \in BOOLEAN :
    Begin(LegacyListFrame(folderId, recursive, <<>>),
          [folderId |-> folderId,
           fn |-> "legacy.listMtpFileTree",
           recursive |-> recursive])

(* lines 296-303, 336-344: the guard, the listing and the catch *)
LegacyListEntry ==
  /\ Running("legacy.listMtpFileTree", "entry")
  /\ IF device = Null
       THEN Return(Err(NO_MTP)) /\ UNCHANGED <<store, nextId, log, faults>>
       ELSE \E o \in Get_Files_And_Folders(W, Top.folderId) :
              /\ SetW(o.w)
              /\ IF o.thrown THEN Return(Err(THROWN))
                 ELSE Goto([Top EXCEPT !.pc = "loop", !.files = o.files, !.i = 1])
  /\ UNCHANGED <<released, device, storageId, cwd, ops, cur>>

(* lines 305-335: one turn of the loop over the listing, or the return *)
LegacyListLoop ==
  /\ Running("legacy.listMtpFileTree", "loop")
  /\ IF Top.i > Len(Top.files) THEN Return(Ok(Top.fileTreeStructure))
     ELSE LET file == Top.files[Top.i]
              pushed == Append(Top.fileTreeStructure, FileInfo(file, Top.parentPath))
          IN IF file.isFolder /\ Top.recursive
               THEN Await([Top EXCEPT !.pc = "child", !.fileTreeStructure = pushed],
                          LegacyListFrame(file.id, Top.recursive,
                                          PathJoin(Top.parentPath, file.name)))
             ELSE Goto([Top EXCEPT !.i = @ + 1, !.fileTreeStructure = pushed])
  /\ UNCHANGED <<released, device, storageId, cwd, store, nextId, log, faults, ops, cur>>

(* lines 322-329: the awaited recursive call has returned; it has filled   *)
(* the children array it was given, and its result is not read             *)
LegacyListChild ==
  /\ Running("legacy.listMtpFileTree", "child")
  /\ LET n == Len(Top.fileTreeStructure) IN
     Goto([Top EXCEPT !.pc = "loop",
                      !.i = @ + 1,
                      !.fileTreeStructure[n].children = ChildrenFilled(ret)])
  /\ UNCHANGED <<released, device, storageId, cwd, store, nextId, log, faults, ops, cur>>

LegacyDownloadFrame(nodes, destinationFilePath) ==
  [destinationFilePath |-> destinationFilePath,
   fn |-> "legacy.downloadFileTree",
   pc |-> "entry",
   i |-> 1,
   nodes |-> nodes]

CallLegacyDownloadFileTree ==
  \E nodes \in {<<>>, TreeOf(store, FILES_AND_FOLDERS_ROOT, <<>>)} :
    Begin(LegacyDownloadFrame(nodes, pOut),
          [destinationFilePath |-> pOut,
           fn |-> "legacy.downloadFileTree",
           nodes |-> nodes])

(* line 421: the guard *)
LegacyDownloadEntry ==
  /\ Running("legacy.downloadFileTree", "entry")
  /\ IF device = Null THEN Return(Err(NO_MTP))
     ELSE Goto([Top EXCEPT !.pc = "loop"])
  /\ UNCHANGED <<released, device, storageId, cwd, store, nextId, log, faults, ops, cur>>

(* line 451: the loop has ended and the body returns nothing *)
LegacyDownloadFinish ==
  /\ Running("legacy.downloadFileTree", "loop")
  /\ Top.i > Len(Top.nodes)
  /\ Return(Undefined)
  /\ UNCHANGED <<released, device, storageId, cwd, store, nextId, log, faults, ops, cur>>

(* lines 427 and 446: `${destinationFilePath}/${item.name}` *)
legacyPath == Str(<<Top.destinationFilePath, <<"/">>, Item.name>>)

(* lines 426-441: a folder node; mkdirp, then the recursive call *)
LegacyDownloadFolder ==
  /\ Running("legacy.downloadFileTree", "loop")
  /\ Top.i <= Len(Top.nodes)
  /\ Item.isFolder
  /\ \E o \in promisifiedMkdir(W, legacyPath) :
       /\ SetW(o.w)
       /\ IF o.error # Null THEN Return(Err(o.error))
          ELSE Await([Top EXCEPT !.pc = "child"],
                     LegacyDownloadFrame(Item.children, legacyPath))
  /\ UNCHANGED <<released, device, storageId, cwd, ops, cur>>

(* lines 438-443: the awaited recursive call has returned; what it         *)
(* resolved with is not read, and a rejection of it (a throw of the        *)
(* provider below) rejects this call as well                               *)
LegacyDownloadChild ==
  /\ Running("legacy.downloadFileTree", "child")
  /\ IF ret.error = THROWN THEN Return(ret)
     ELSE Goto([Top EXCEPT !.pc = "loop", !.i = @ + 1])
  /\ UNCHANGED <<released, device, storageId, cwd, store, nextId, log, faults, ops, cur>>

(* lines 446-449 and 405-418: a file node; `return await downloadFile`     *)
(* ends the call with the status of Get_File_To_File                       *)
LegacyDownloadFile ==
  /\ Running("legacy.downloadFileTree", "loop")
  /\ Top.i <= Len(Top.nodes)
  /\ ~Item.isFolder
  /\ \E o \in Get_File_To_File(W, Item.id, legacyPath) :
       /\ SetW(o.w)
       /\ Return(IF o.thrown THEN Err(THROWN) ELSE Ok(o.res))
  /\ UNCHANGED <<released, device, storageId, cwd, ops, cur>>

NextLegacy ==
  \/ LegacyDetectMtp
  \/ LegacyReleaseDevice
  \/ LegacyDeleteFile
  \/ CallLegacyListMtpFileTree
  \/ LegacyListEntry
  \/ LegacyListLoop
  \/ LegacyListChild
  \/ CallLegacyDownloadFileTree
  \/ LegacyDownloadEntry
  \/ LegacyDownloadFinish
  \/ LegacyDownloadFolder
  \/ LegacyDownloadChild
  \/ LegacyDownloadFile

SpecLegacy == Init /\ [][NextLegacy]_vars

(***************************************************************************)
(* The driver programs: run() of src/unnamed/part_001, on the second MTP   *)
(* class, and run() of src/test.js, on the first.  The frame of run is the *)
(* bottom of the stack and log is the history of the run: the stages run   *)
(* calls, the provider and file system calls they make, the errors run     *)
(* prints.                                                                 *)
(***************************************************************************)
Drivers == {"part_001", "test.js"}

RunFrame(driver, resetmtp) ==
  [fn |-> "run",
   pc |-> "detectMtp",
   driver |-> driver,
   resetmtp |-> resetmtp]

InitDrivers ==
  /\ device = Null
  /\ storageId = <<>>
  /\ cwd = pRoot
  /\ store \in {<<>>, StoreNested, StoreHidden}
  /\ nextId = 10
  /\ \E driver \in Drivers, resetmtp \in BOOLEAN :
       /\ stack = <<RunFrame(driver, resetmtp)>>
       /\ cur = [fn |-> "run", driver |-> driver, resetmtp |-> resetmtp]
  /\ ret = NoRet
  /\ log = <<>>
  /\ faults = 0
  /\ ops = 0
  /\ released = FALSE

(* run calls the method stage *)
Stage(w, stage) == Logged(w, Call(stage, w, 0, <<>>, <<>>, 0, <<>>, 0))

(* console.error of the error of a stage *)
Printed(w) == Logged(w, Call("console.error", w, 0, <<>>, <<>>, 0, <<>>, 0))

(* run goes on with the stage pc, or returns *)
RunGoto(pc) == Goto([Top EXCEPT !.pc = pc])

RunHalt == Return(Undefined)

(* part_001 lines 18-37, test.js lines 14-21: detectMtp; part_001 returns  *)
(* on its error, test.js prints it and goes on                             *)
RunDetectMtp ==
  /\ Running("run", "detectMtp")
  /\ \/ /\ device' = "device"
        /\ released' = FALSE
        /\ log' = Stage(W, "detectMtp").log
        /\ RunGoto("setStorageDevices")
     \/ /\ device' = Null
        /\ UNCHANGED released
        /\ log' = Printed(Stage(W, "detectMtp")).log
        /\ IF Top.driver = "test.js" THEN RunGoto("setStorageDevices") ELSE RunHalt
  /\ UNCHANGED <<storageId, cwd, store, nextId, faults, ops, cur>>

(* lines 186-217: setStorageDevices({deviceIndex}) of the first class; the *)
(* keys it indexes are those of the result of listStorageDevices, data and *)
(* error, and the error of that result is not read                         *)
legacySetStorageDevices(w) ==
  IF w.device = Null THEN {[w |-> w,
                            r |-> Err(NO_MTP)]}
  ELSE {[w |-> [o.w EXCEPT !.storageId = <<"data">>],
         r |-> Ok("data")]
        : o \in Get_Storage(w)}

(* lines 778-835: setStorageDevices({storageIndex: 0}) of the second class *)
setStorageDevicesAt0(w) ==
  {[w |-> IF o.r.error # Null THEN o.w
          ELSE [o.w EXCEPT !.storageId = SelectedStorage(o.r.data[1], <<>>, 0)],
    r |-> IF o.r.error # Null THEN Err(o.r.error)
          ELSE [data |-> StorageList(o.r.data[1], SelectedStorage(o.r.data[1], <<>>, 0)),
                error |-> Null]]
   : o \in listStorageDevices(w)}

(* part_001 lines 43-61, test.js lines 26-33 *)
RunSetStorageDevices ==
  /\ Running("run", "setStorageDevices")
  /\ \E o \in (IF Top.driver = "test.js"
                 THEN legacySetStorageDevices(Stage(W, "setStorageDevices"))
                 ELSE setStorageDevicesAt0(Stage(W, "setStorageDevices"))) :
       /\ storageId' = o.w.storageId
       /\ faults' = o.w.faults
       /\ IF o.r.error # Null
            THEN /\ log' = Printed(o.w).log
                 /\ IF Top.driver = "test.js"
                      THEN RunGoto(IF Top.resetmtp THEN "listMtpFileTree" ELSE "releaseDevice")
                      ELSE RunHalt
            ELSE /\ log' = o.w.log
                 /\ RunGoto(IF Top.driver = "test.js" /\ ~Top.resetmtp
                              THEN "releaseDevice" ELSE "listMtpFileTree")
  /\ UNCHANGED <<released, device, cwd, store, nextId, ops, cur>>

(* part_001 lines 327-333: listMtpFileTree({folderPath, recursive: true}); *)
(* test.js lines 35-39: listMtpFileTree of the root, not recursive         *)
RunListMtpFileTree ==
  /\ Running("run", "listMtpFileTree")
  /\ log' = Stage(W, "listMtpFileTree").log
  /\ IF Top.driver = "test.js"
       THEN Await([Top EXCEPT !.pc = "listed"],
                  LegacyListFrame(FILES_AND_FOLDERS_ROOT, FALSE, <<>>))
       ELSE Await([Top EXCEPT !.pc = "listed"],
                  [filePath |-> <<>>,
                   ignoreHiddenFiles |-> FALSE,
                   folderPath |-> <<Str(<<pRoot, nA>>)>>,
                   fn |-> "listMtpFileTree",
                   pc |-> "entry",
                   recursive |-> TRUE])
  /\ UNCHANGED <<released, device, storageId, cwd, store, nextId, faults, ops, cur>>

(* part_001 lines 335-352: the error of the listing ends the run, its data *)
(* goes to downloadFileTree; test.js lines 41-47: the result is printed    *)
(* with console.log and run returns                                        *)
RunListed ==
  /\ Running("run", "listed")
  /\ IF Top.driver = "test.js"
       THEN RunHalt /\ UNCHANGED log
     ELSE IF ret.error # Null
       THEN RunHalt /\ log' = Printed(W).log
     ELSE /\ log' = Stage(W, "downloadFileTree").log
          /\ Await([Top EXCEPT !.pc = "downloaded"],
                   DownloadFrame(TRUE, ret.data[1], pOut))
  /\ UNCHANGED <<released, device, storageId, cwd, store, nextId, faults, ops, cur>>

(* part_001 lines 354-367 *)
RunDownloaded ==
  /\ Running("run", "downloaded")
  /\ IF ret.error # Null
       THEN RunHalt /\ log' = Printed(W).log
       ELSE RunGoto("releaseDevice") /\ UNCHANGED log
  /\ UNCHANGED <<released, device, storageId, cwd, store, nextId, faults, ops, cur>>

(* part_001 lines 411-429, test.js lines 90-98: releaseDevice, the last    *)
(* statement of run; the second class forgets the handle it released, the  *)
(* first keeps it                                                          *)
RunReleaseDevice ==
  /\ Running("run", "releaseDevice")
  /\ RunHalt
  /\ LET w == Stage(W, "releaseDevice") IN
     \/ /\ device = Null
        /\ log' = Printed(w).log
        /\ UNCHANGED <<released, device, faults>>
     \/ /\ device # Null
        /\ device' = IF Top.driver = "test.js" THEN device ELSE Null
        /\ released' = TRUE
        /\ log' = Logged(w, Call("Release_Device", w, 0, <<>>, <<>>, 0, <<>>, 0)).log
        /\ UNCHANGED faults
     \/ /\ device # Null
        /\ CanFail(W)
        /\ faults' = faults + 1
        /\ log' = Printed(Logged(w, Call("Release_Device", w, 0, <<>>, <<>>, THROW, <<>>, 0))).log
        /\ UNCHANGED <<released, device>>
  /\ UNCHANGED <<storageId, cwd, store, nextId, ops, cur>>

NextDrivers ==
  \/ RunDetectMtp
  \/ RunSetStorageDevices
  \/ RunListMtpFileTree
  \/ RunListed
  \/ RunDownloaded
  \/ RunReleaseDevice
  \/ ListMtpEntry
  \/ ListMtpResolved
  \/ ListMtpListed
  \/ ResolveEntry
  \/ ResolveLoop
  \/ ListEntry
  \/ ListLoop
  \/ ListChild
  \/ DownloadEntry
  \/ DownloadFinish
  \/ DownloadFolder
  \/ DownloadChild
  \/ DownloadFile
  \/ LegacyListEntry
  \/ LegacyListLoop

SpecDrivers == InitDrivers /\ [][NextDrivers]_vars

(***************************************************************************)
(* Properties                                                              *)
(***************************************************************************)
IsList(rec) == rec.call = "Get_Files_And_Folders"
IsCreate(rec) == rec.call = "Create_Folder"
IsDestroy(rec) == rec.call = "Destroy_file"
IsSend(rec) == rec.call = "Send_File_From_File"

InUpload == cur.fn = "uploadFileTree"
InDownload == cur.fn = "downloadFileTree"
InResolve == cur.fn = "resolvePath"

(* the lookup that precedes the upload logged at j: the last listing of    *)
(* the upload's parent before j                                            *)
LookupBefore(j) ==
  {k \in 1..(j - 1) :
     /\ IsList(log[k]) /\ log[k].id = log[j].id
     /\ \A m \in (k + 1)..(j - 1) : ~(IsList(log[m]) /\ log[m].id = log[j].id)}

(* C1: during uploadFileTree, every Send_File_From_File for a name under a *)
(* parent comes after a listing of that parent, and when that listing      *)
(* holds an entry of that name, a Destroy_file of that entry is issued     *)
(* between the listing and the upload.                                     *)
C1_DeleteBeforeUpload ==
  InUpload =>
    \A j \in 1..Len(log) :
      IsSend(log[j]) =>
        /\ LookupBefore(j) # {}
        /\ \A k \in LookupBefore(j) :
             findLodash(log[k].files, log[j].name) # <<>> =>
               \E d \in (k + 1)..(j - 1) :
                 /\ IsDestroy(log[d])
                 /\ log[d].id = findLodash(log[k].files, log[j].name)[1].id

(* an upload has replaced an existing entry: it was deleted, then sent *)
C1_Witness ==
  /\ Done /\ InUpload /\ ret.error = Null
  /\ \E j \in 2..Len(log) :
       /\ IsSend(log[j]) /\ log[j].res = 0
       /\ IsDestroy(log[j - 1]) /\ log[j - 1].res = 0
       /\ IsList(log[j - 2])
       /\ findLodash(log[j - 2].files, log[j].name) # <<>>
       /\ ~findLodash(log[j - 2].files, log[j].name)[1].isFolder

(* Create_Folder at k reported the sentinel and the lookup at k + 1 found  *)
(* an entry of that name                                                   *)
ConflictAt(k) ==
  /\ k < Len(log)
  /\ IsCreate(log[k]) /\ log[k].res = 0
  /\ IsList(log[k + 1]) /\ log[k + 1].res = 0
  /\ findLodash(log[k + 1].files, log[k].name) # <<>>

Existing(k) == findLodash(log[k + 1].files, log[k].name)[1]

CountFolders(entries, name) ==
  Cardinality({k \in 1..Len(entries) : entries[k].name = name /\ entries[k].isFolder})

(* the Create_Folder call made for the folder node the frame f waits on *)
CreateOf(f) ==
  {k \in 1..Len(log) :
     /\ IsCreate(log[k]) /\ log[k].name = f.nodes[f.i].name /\ log[k].id = f.parentId[1]
     /\ \A m \in (k + 1)..Len(log) :
          ~(IsCreate(log[m]) /\ log[m].name = log[k].name /\ log[m].id = log[k].id)}

(* C2: when uploadFileTree meets a folder node whose name the lookup finds *)
(* as a folder under the destination parent, the recursive call for the    *)
(* node's children is given the existing folder's id, and the parent holds *)
(* no more folders of that name than the lookup listed.                    *)
C2_ReusesExistingFolder ==
  InUpload =>
    /\ \A k \in 1..Len(log) :
         (ConflictAt(k) /\ Existing(k).isFolder) =>
           CountFolders(ChildrenOf(store, log[k].id), log[k].name)
             <= CountFolders(log[k + 1].files, log[k].name)
    /\ \A d \in 2..Len(stack) :
         (stack[d].fn = "uploadFileTree" /\ stack[d].pc = "child") =>
           \A k \in CreateOf(stack[d]) :
             (ConflictAt(k) /\ Existing(k).isFolder) =>
               /\ stack[d - 1].fn = "uploadFileTree"
               /\ stack[d - 1].parentId = <<Existing(k).id>>
               /\ stack[d - 1].nodes = stack[d].nodes[stack[d].i].children

(* a file of the folder node was sent into the folder that already existed *)
C2_Witness ==
  /\ Done /\ InUpload /\ ret.error = Null
  /\ \E k \in 1..Len(log) :
       /\ ConflictAt(k) /\ Existing(k).isFolder
       /\ \E j \in (k + 2)..Len(log) :
            IsSend(log[j]) /\ log[j].res = 0 /\ log[j].id = Existing(k).id
       /\ CountFolders(ChildrenOf(store, log[k].id), log[k].name) = 1

(* C3: when Create_Folder reports the sentinel and the entry the lookup    *)
(* finds under the parent is a file, createFolder and uploadFileTree fail  *)
(* with CREATE_FOLDER_FILE_FAILED and the lookup is the last provider call:*)
(* no delete, and no call for the folder node's children.                  *)
C3_FolderOverFileFails ==
  (InUpload \/ cur.fn = "createFolder") =>
    \A k \in 1..Len(log) :
      (ConflictAt(k) /\ ~Existing(k).isFolder) =>
        /\ Len(log) = k + 1
        /\ ret = Err(CREATE_FOLDER_FILE_FAILED)

(* an upload of a folder node with a child ended on the conflict *)
C3_Witness ==
  /\ Done /\ InUpload /\ ret = Err(CREATE_FOLDER_FILE_FAILED)
  /\ ConflictAt(Len(log) - 1) /\ ~Existing(Len(log) - 1).isFolder
  /\ \E n \in 1..Len(cur.nodes) :
       /\ cur.nodes[n].isFolder /\ cur.nodes[n].name = log[Len(log) - 1].name
       /\ cur.nodes[n].children # <<>>
       /\ n < Len(cur.nodes)

(* the error downloadFileTree returns for the failed call rec *)
DownloadErrorOf(rec) ==
  IF rec.res = 0 THEN Null
  ELSE IF rec.res = THROW THEN THROWN
  ELSE IF rec.call = "mkdirp" THEN MKDIR_ERROR
  ELSE DOWNLOAD_FILE_FAILED

(* C4: in downloadFileTree a failed mkdirp or fetch is the last call of    *)
(* the walk, at whatever depth it failed, and from that call on the result *)
(* handed up, and returned by the root invocation, is that call's error.   *)
C4_DownloadFailFast ==
  InDownload =>
    /\ \A k \in 1..(Len(log) - 1) : DownloadErrorOf(log[k]) = Null
    /\ (log # <<>> /\ DownloadErrorOf(Last(log)) # Null) =>
         ret = Err(DownloadErrorOf(Last(log)))

(* a fetch below a folder failed while a sibling of that folder was left *)
C4_Witness ==
  /\ Done /\ InDownload /\ ret = Err(DOWNLOAD_FILE_FAILED)
  /\ \E k \in 1..(Len(log) - 1) : log[k].call = "mkdirp"
  /\ Last(log).call = "Get_File_To_File"
  /\ Len(PathBasename(Last(log).path)) > 0
  /\ Last(log).path # PathJoin(pOut, PathBasename(Last(log).path))
  /\ Len(cur.nodes) > 1 /\ cur.nodes[1].isFolder

(* the error uploadFileTree returns because of the call logged at k *)
UploadErrorAt(k) ==
  IF log[k].res = THROW THEN THROWN
  ELSE IF IsSend(log[k]) /\ log[k].res # 0 THEN UPLOAD_FILE_FAILED
  ELSE IF IsList(log[k]) /\ k > 1 /\ IsCreate(log[k - 1]) /\ log[k - 1].res = 0
    THEN IF findLodash(log[k].files, log[k - 1].name) = <<>> THEN CREATE_FOLDER_FAILED
         ELSE IF ~findLodash(log[k].files, log[k - 1].name)[1].isFolder
           THEN CREATE_FOLDER_FILE_FAILED
         ELSE Null
  ELSE Null

(* C5: in uploadFileTree a failed create-folder, lookup, delete or send is *)
(* the last provider call of the walk, from that call on the result handed *)
(* up and returned is that call's error, and no Destroy_file is issued for *)
(* an object the walk created.                                             *)
C5_UploadFailFastNoRollback ==
  InUpload =>
    /\ \A k \in 1..(Len(log) - 1) : UploadErrorAt(k) = Null
    /\ (log # <<>> /\ UploadErrorAt(Len(log)) # Null) =>
         ret = Err(UploadErrorAt(Len(log)))
    /\ \A d \in 1..Len(log) :
         IsDestroy(log[d]) => \A k \in 1..(d - 1) : log[k].made # log[d].id

(* a send below a created folder failed: the folder is still there and a   *)
(* sibling of it was left                                                  *)
C5_Witness ==
  /\ Done /\ InUpload /\ ret = Err(UPLOAD_FILE_FAILED)
  /\ IsSend(Last(log))
  /\ \E k \in 1..(Len(log) - 1) :
       /\ IsCreate(log[k]) /\ log[k].made # 0
       /\ Last(log).id = log[k].made
       /\ \E e \in 1..Len(store) : store[e].id = log[k].made
  /\ Len(cur.nodes) > 1 /\ cur.nodes[1].isFolder

(* the segments of the path resolvePath was called with *)
Segments == Tail(Split(PathResolve(cur.filePath[1], cwd)))

(* C6: resolvePath on a path other than the root issues only listings, the *)
(* k-th on the root for k = 1 and else on the id of the first entry of the *)
(* (k-1)-th listing named like segment k-1; never more listings than       *)
(* segments, exactly as many when it succeeds; and a listing without an    *)
(* entry named like its segment is the last and ends in INVALID_NOT_FOUND. *)
C6_OneListingPerSegment ==
  (InResolve /\ cur.filePath # <<>>) =>
    /\ Len(log) <= Len(Segments)
    /\ \A k \in 1..Len(log) :
         /\ IsList(log[k])
         /\ k = 1 => log[k].id = FILES_AND_FOLDERS_ROOT
         /\ k > 1 =>
              /\ findLodash(log[k - 1].files, Segments[k - 1]) # <<>>
              /\ log[k].id = findLodash(log[k - 1].files, Segments[k - 1])[1].id
         /\ (log[k].res = 0 /\ findLodash(log[k].files, Segments[k]) = <<>>) =>
              (k = Len(log) /\ ret = Err(INVALID_NOT_FOUND))
    /\ (Done /\ ret.error = Null /\ ~IsRootPath(PathResolve(cur.filePath[1], cwd))) =>
         Len(log) = Len(Segments)
    /\ (Done /\ ret.error = INVALID_NOT_FOUND) =>
         (log # <<>> /\ findLodash(Last(log).files, Segments[Len(log)]) = <<>>)

(* a path of two segments was resolved with two listings *)
C6_Witness ==
  /\ Done /\ InResolve /\ cur.filePath # <<>> /\ ret.error = Null
  /\ Len(Segments) = 2 /\ Len(log) = 2
  /\ log[2].id # FILES_AND_FOLDERS_ROOT

(* the first segment of a path of two segments was not found *)
C6_WitnessNotFound ==
  /\ Done /\ InResolve /\ cur.filePath # <<>> /\ ret = Err(INVALID_NOT_FOUND)
  /\ Len(Segments) = 2 /\ Len(log) = 1

(* C7: resolvePath on a path that path.resolve turns into '/' issues no    *)
(* provider call and, with a device, returns the id FILES_AND_FOLDERS_ROOT.*)
C7_RootWithoutListing ==
  (InResolve /\ cur.filePath # <<>> /\ PathResolve(cur.filePath[1], cwd) = pRoot) =>
    /\ log = <<>>
    /\ Done => (ret = Ok([id |-> FILES_AND_FOLDERS_ROOT]) \/ (device = Null /\ ret = Err(NO_MTP)))

(* a path other than '/' that normalizes to the root was resolved *)
C7_Witness ==
  /\ Done /\ InResolve /\ cur.filePath # <<>>
  /\ cur.filePath[1] # pRoot
  /\ PathResolve(cur.filePath[1], cwd) = pRoot
  /\ ret = Ok([id |-> FILES_AND_FOLDERS_ROOT])

(* C8: the node resolvePath returns for a path other than the root carries *)
(* the id, size and folder flag of the entry found for the last segment,   *)
(* and its path field is the resolved path.                                *)
C8_NodeCarriesFullPath ==
  (Done /\ InResolve /\ cur.filePath # <<>> /\ ret.error = Null
     /\ PathResolve(cur.filePath[1], cwd) # pRoot) =>
    LET hit == findLodash(Last(log).files, Last(Segments))[1]
    IN /\ ret.data[1].id = hit.id
       /\ ret.data[1].size = hit.size
       /\ ret.data[1].isFolder = hit.isFolder
       /\ ret.data[1].path = PathResolve(cur.filePath[1], cwd)

(* C9: resolvePath fails with INVALID_PATH_RESOLVE on null and on the      *)
(* empty string, and returns the error of a listing that failed unchanged. *)
C9_NullOrEmptyIsInvalid ==
  (Done /\ InResolve /\ device # Null) =>
    /\ (cur.filePath = <<>> \/ cur.filePath = << <<>> >>) =>
         ret = Err(INVALID_PATH_RESOLVE)
    /\ (log # <<>> /\ Last(log).res = THROW) => ret = Err(THROWN)

(* C10: a listing that throws during listMtpFileTree, at any depth, makes  *)
(* the call return that error with data null.                              *)
C10_ListingErrorAborts ==
  (Done /\ cur.fn = "listMtpFileTree") =>
    ((\E k \in 1..Len(log) : log[k].res = THROW) => ret = Err(THROWN))

(* the nodes of a tree of an enumeration, at every depth *)
RECURSIVE NodesOf(_)
NodesOf(tree) ==
  IF tree = <<>> THEN <<>>
  ELSE <<Head(tree)>> \o NodesOf(Head(tree).children) \o NodesOf(Tail(tree))

InList == cur.fn = "listMtpFileTree"

(* the path listMtpFileTree was called with, resolved *)
ListPath == PathResolve(cur.folderPath[1], cwd)

(* the place in the log of the listing of the folder that is enumerated:   *)
(* it follows the listings of the path's resolution                        *)
ListRootAt == IF ListPath = pRoot THEN 1 ELSE Len(Tail(Split(ListPath))) + 1

(* the entries of the device below the folder that was enumerated, as far  *)
(* as recursive reaches                                                    *)
Listable ==
  LET top == log[ListRootAt].id
      ids == IF cur.recursive THEN Descendants(store, {top}) \ {top}
             ELSE {store[k].id : k \in {j \in 1..Len(store) : store[j].parentId = top}}
  IN {k \in 1..Len(store) : store[k].id \in ids}

(* C11: the tree listMtpFileTree returns with ignoreHiddenFiles = true has *)
(* no node, at any depth, whose name is a hidden name, and the tree it     *)
(* returns with ignoreHiddenFiles = false has a node for every entry       *)
(* enumerated, hidden or not.                                              *)
C11_HiddenExcludedAtEveryDepth ==
  (Done /\ InList /\ ret.error = Null) =>
    LET nodes == NodesOf(ret.data[1]) IN
    /\ cur.ignoreHiddenFiles =>
         \A n \in 1..Len(nodes) : ~IsHidden(nodes[n].name)
    /\ (~cur.ignoreHiddenFiles /\ faults = 0) =>
         \A k \in Listable : \E n \in 1..Len(nodes) : nodes[n].id = store[k].id

InLocal == cur.fn = "listLocalFileTree"

(* the nodes the loop of __listMtpFileTree makes of the listing at k *)
FlatOf(k) == ListedFlat(log[k].files, ListPath, cur.ignoreHiddenFiles)

(* the entries listLocalFileTree keeps of a directory *)
LocalKept(dir) ==
  SelectSeq(LocalFs, LAMBDA e : e.dir = dir /\ ~IsJunk(e.name) /\ e.writable)

(* C12: with recursive = false an enumeration issues one listing, of the   *)
(* folder it enumerates (for listMtpFileTree after the listings that       *)
(* resolve folderPath), and returns one node for each immediate child it   *)
(* keeps, each with an empty children sequence; on the device and locally. *)
C12_NonRecursiveIsFlat ==
  /\ (InList /\ ~cur.recursive /\ cur.folderPath # <<>>) =>
       /\ Len(log) <= ListRootAt
       /\ (Done /\ ret.error = Null) =>
            /\ Len(log) = ListRootAt
            /\ Len(ret.data[1]) = Len(FlatOf(ListRootAt))
            /\ \A n \in 1..Len(ret.data[1]) :
                 /\ ret.data[1][n].children = <<>>
                 /\ ret.data[1][n].id = FlatOf(ListRootAt)[n].id
                 /\ ret.data[1][n].parentId = log[ListRootAt].id
  /\ (InLocal /\ ~cur.recursive) =>
       /\ Len(log) <= 1
       /\ (Done /\ ret.error = Null) =>
            /\ Len(log) = 1
            /\ Len(ret.data[1]) = Len(LocalKept(cur.folderPath))
            /\ \A n \in 1..Len(ret.data[1]) :
                 /\ ret.data[1][n].children = <<>>
                 /\ ret.data[1][n].name = LocalKept(cur.folderPath)[n].name

(* a folder with entries below it was listed without them, on the device   *)
C12_Witness ==
  /\ Done /\ InList /\ ~cur.recursive /\ cur.folderPath # <<>> /\ ret.error = Null
  /\ \E n \in 1..Len(ret.data[1]) :
       /\ ret.data[1][n].isFolder
       /\ ChildrenOf(store, ret.data[1][n].id) # <<>>
       /\ ret.data[1][n].children = <<>>

(* the same in a local directory *)
C12_WitnessLocal ==
  /\ Done /\ InLocal /\ ~cur.recursive /\ ret.error = Null
  /\ \E n \in 1..Len(ret.data[1]) :
       /\ ret.data[1][n].isFolder
       /\ LocalKept(ret.data[1][n].path) # <<>>

(* parent joined with '/' and name *)
Joined(parent, name) ==
  IF parent # <<>> /\ Last(parent) = "/" THEN parent \o name
  ELSE parent \o <<"/">> \o name

(* every node of the tree has the path of its parent joined with its name, *)
(* from the path parentPath of the folder the tree is of                   *)
RECURSIVE PathsJoin(_, _)
PathsJoin(tree, parentPath) ==
  \A n \in 1..Len(tree) :
    /\ tree[n].path = Joined(parentPath, tree[n].name)
    /\ PathsJoin(tree[n].children, tree[n].path)

(* every node of the tree of device entries below the folder parentId has  *)
(* that folder as its parent                                               *)
RECURSIVE ParentsHold(_, _)
ParentsHold(tree, parentId) ==
  \A n \in 1..Len(tree) :
    /\ tree[n].parentId = parentId
    /\ ParentsHold(tree[n].children, tree[n].id)

(* C13: in the tree of a recursive enumeration every node's path is its    *)
(* parent's path joined with '/' and its name, from the path of the folder *)
(* enumerated on, and every node is in one children sequence only: that of *)
(* its parent, and no id (locally: no path) is in the tree twice.          *)
C13_PathsJoinFromRoot ==
  /\ (Done /\ InList /\ cur.recursive /\ cur.folderPath # <<>> /\ ret.error = Null) =>
       LET nodes == NodesOf(ret.data[1]) IN
       /\ PathsJoin(ret.data[1], ListPath)
       /\ ParentsHold(ret.data[1], log[ListRootAt].id)
       /\ \A m, n \in 1..Len(nodes) : nodes[m].id = nodes[n].id => m = n
  /\ (Done /\ InLocal /\ cur.recursive /\ ret.error = Null) =>
       LET nodes == NodesOf(ret.data[1]) IN
       /\ PathsJoin(ret.data[1], cur.folderPath)
       /\ \A m, n \in 1..Len(nodes) : nodes[m].path = nodes[n].path => m = n

(* a tree three folders deep was enumerated from a folder below the root *)
C13_Witness ==
  /\ Done /\ InList /\ cur.recursive /\ cur.folderPath # <<>> /\ ret.error = Null
  /\ ListPath # pRoot
  /\ \E n \in 1..Len(ret.data[1]) :
       /\ ret.data[1][n].children # <<>>
       /\ ret.data[1][n].children[1].path = Str(<<ListPath, <<"/">>, nC, <<"/">>, nB>>)

(* a local tree two folders deep was enumerated *)
C13_WitnessLocal ==
  /\ Done /\ InLocal /\ cur.recursive /\ ret.error = Null
  /\ \E n \in 1..Len(ret.data[1]) :
       /\ ret.data[1][n].children # <<>>
       /\ ret.data[1][n].children[1].path = Str(<<pSrcA, <<"/">>, nB>>)

IsMkdir(rec) == rec.call = "mkdirp"
IsFetch(rec) == rec.call = "Get_File_To_File"

(* C14: downloadFileTree with rootNode = true and no nodes makes no call    *)
(* and, with a device, returns NO_FILES_COPIED; a walk over a tree with    *)
(* nodes, some of them folders without children, in which no call fails    *)
(* returns no error, and so does a call without rootNode and without nodes.*)
C14_EmptyRootFailsEmptyFolderDoesNot ==
  InDownload =>
    /\ (cur.rootNode /\ cur.nodes = <<>>) =>
         /\ log = <<>>
         /\ Done => (ret = Err(NO_FILES_COPIED) \/ (device = Null /\ ret = Err(NO_MTP)))
    /\ (Done /\ device # Null /\ faults = 0 /\ ~(cur.rootNode /\ cur.nodes = <<>>)) =>
         ret = Ok(TRUE)

(* the root call was refused for its empty node list *)
C14_Witness ==
  /\ Done /\ InDownload /\ cur.rootNode /\ cur.nodes = <<>>
  /\ ret = Err(NO_FILES_COPIED)

(* a tree with a folder without children was downloaded from the root call *)
C14_WitnessEmptyFolder ==
  /\ Done /\ InDownload /\ cur.rootNode /\ ret = Ok(TRUE)
  /\ \E n \in 1..Len(cur.nodes) : cur.nodes[n].isFolder /\ cur.nodes[n].children = <<>>

IsPrefix(p, q) == Len(p) <= Len(q) /\ SubSeq(q, 1, Len(p)) = p

(* the nodes of the tree handed to the call, in pre-order *)
Source == NodesOf(cur.nodes)

(* C15: every Get_File_To_File of downloadFileTree is for a file node of   *)
(* the tree and targets the destination followed by the names of the       *)
(* node's folder ancestors and its own name, and for each of those folders *)
(* a mkdirp of its local directory succeeded earlier.                      *)
C15_FoldersBeforeFiles ==
  InDownload =>
    \A j \in 1..Len(log) :
      IsFetch(log[j]) =>
        \E n \in 1..Len(Source) :
          /\ ~Source[n].isFolder /\ Source[n].id = log[j].id
          /\ log[j].path = pOut \o Source[n].path
          /\ \A a \in 1..Len(Source) :
               (Source[a].isFolder /\ IsPrefix(Source[a].path \o <<"/">>, Source[n].path)) =>
                 \E k \in 1..(j - 1) :
                   /\ IsMkdir(log[k]) /\ log[k].res = 0
                   /\ log[k].path = pOut \o Source[a].path

(* a file two folders down was fetched after both directories were made *)
C15_Witness ==
  /\ Done /\ InDownload /\ ret = Ok(TRUE)
  /\ \E j \in 3..Len(log) :
       /\ IsFetch(log[j])
       /\ log[j].path = Str(<<pOut, <<"/">>, nA, <<"/">>, nC, <<"/">>, nB>>)
       /\ \E k \in 1..(j - 1) : IsMkdir(log[k]) /\ log[k].path = Str(<<pOut, <<"/">>, nA>>)
       /\ \E k \in 1..(j - 1) :
            IsMkdir(log[k]) /\ log[k].path = Str(<<pOut, <<"/">>, nA, <<"/">>, nC>>)

(* the calls that process a node: the create or mkdirp of a folder node,   *)
(* the send or fetch of a file node                                        *)
IsStep(rec) == IsCreate(rec) \/ IsSend(rec) \/ IsMkdir(rec) \/ IsFetch(rec)

Steps == SelectSeq(log, IsStep)

(* the call rec is the one that processes the node *)
StepOf(rec, node) ==
  IF InUpload
    THEN IF node.isFolder THEN IsCreate(rec) /\ rec.name = node.name
         ELSE IsSend(rec) /\ rec.path = node.path
    ELSE IF node.isFolder THEN IsMkdir(rec) /\ rec.path = pOut \o node.path
         ELSE IsFetch(rec) /\ rec.id = node.id

(* the frames of the call that wait for the frame above them *)
Waiting(f) == f.pc \in {"child", "resolved", "listed"}

(* C16: in uploadFileTree and downloadFileTree the calls that process the  *)
(* nodes are issued in the pre-order of the tree handed in: the k-th such  *)
(* call processes the k-th node of the pre-order, so a folder's subtree is *)
(* finished before its next sibling is begun; and one frame of the call    *)
(* runs at a time, every other one waiting for the call it made.           *)
C16_DepthFirstPreOrder ==
  (InUpload \/ InDownload) =>
    /\ Len(Steps) <= Len(Source)
    /\ \A k \in 1..Len(Steps) : StepOf(Steps[k], Source[k])
    /\ \A d \in 2..Len(stack) : Waiting(stack[d])

(* a folder with a child and a later sibling was uploaded in full *)
C16_Witness ==
  /\ Done /\ InUpload /\ ret = Ok(TRUE)
  /\ Len(Steps) = 3
  /\ IsCreate(Steps[1]) /\ IsSend(Steps[2]) /\ IsSend(Steps[3])
  /\ Steps[2].id = Steps[1].made
  /\ Steps[3].id # Steps[1].made

(* a tree with nested folders was downloaded in full *)
C16_WitnessDownload ==
  /\ Done /\ InDownload /\ ret = Ok(TRUE)
  /\ Len(Steps) = 5
  /\ IsMkdir(Steps[1]) /\ IsFetch(Steps[2]) /\ IsMkdir(Steps[3]) /\ IsFetch(Steps[5])

(* the calls rec and other process the same node *)
SameNode(rec, other) ==
  /\ rec.call = other.call
  /\ IF IsCreate(rec) THEN rec.id = other.id /\ rec.name = other.name
     ELSE IF IsFetch(rec) THEN rec.id = other.id
     ELSE rec.path = other.path

CountNodes(isFolder) ==
  Cardinality({n \in 1..Len(Source) : Source[n].isFolder = isFolder})

CountSteps(isFolder) ==
  Cardinality({k \in 1..Len(Steps) :
                 (IsCreate(Steps[k]) \/ IsMkdir(Steps[k])) = isFolder})

(* C17: in one uploadFileTree or downloadFileTree call no node is          *)
(* processed twice: no two create, mkdirp, send or fetch calls are for the *)
(* same node, whether a call failed or not, and a call that returns no     *)
(* error has made one such call for every node of the tree.                *)
C17_EachNodeOnce ==
  (InUpload \/ InDownload) =>
    /\ \A j, k \in 1..Len(Steps) : SameNode(Steps[j], Steps[k]) => j = k
    /\ (Done /\ ret = Ok(TRUE)) =>
         /\ CountSteps(TRUE) = CountNodes(TRUE)
         /\ CountSteps(FALSE) = CountNodes(FALSE)

(* a send failed and the call ended with one send for that file *)
C17_Witness ==
  /\ Done /\ InUpload /\ ret = Err(UPLOAD_FILE_FAILED)
  /\ IsSend(Last(log)) /\ Last(log).res # 0
  /\ Len(Steps) >= 2

(* the operations on the device's files *)
FileOps ==
  {"resolvePath", "listMtpFileTree", "createFolder", "uploadFileTree", "downloadFileTree"}

InFileOp == cur.fn \in FileOps

(* the calls into the provider; mkdirp and readdirSync are the file system's *)
IsProvider(rec) == rec.call \notin {"mkdirp", "readdirSync"}

(* C18: an operation on the device's files that runs while the device      *)
(* handle or the storage id is null is stopped by the guard: it makes no   *)
(* provider call.                                                          *)
C18_GuardCoversDeviceAndStorage ==
  (InFileOp /\ (device = Null \/ storageId = <<>>)) =>
    \A k \in 1..Len(log) : ~IsProvider(log[k])

(* the half of C18 the guard does cover: without a device handle no        *)
(* provider call is made and the error is NO_MTP                           *)
C18_DeviceHalf ==
  (InFileOp /\ device = Null /\ ~(cur.fn = "listMtpFileTree" /\ cur.folderPath = <<>>)) =>
    /\ log = <<>>
    /\ Done => ret = Err(NO_MTP)

(* the operations that the guard on the device handle stops *)
GuardedOps ==
  FileOps \cup {"listLocalFileTree", "listStorageDevices", "setStorageDevices",
               "fileExists", "downloadFile", "releaseDevice"}

(* C19: after a releaseDevice that succeeded and until a detectMtp         *)
(* succeeds, every operation, a second releaseDevice included, makes no    *)
(* provider call and returns the NO_MTP error of the guard.                *)
C19_ReleasedIsNoDevice ==
  (released /\ cur.fn \in GuardedOps /\ ~(cur.fn = "releaseDevice" /\ ret = Ok(TRUE))) =>
    /\ log = <<>>
    /\ Done => ret = Err(NO_MTP)

(* what an operation returns while the handle is null: NO_MTP from the     *)
(* guard, and for listMtpFileTree with a null folderPath the rejection     *)
(* raised by path.resolve before the guard is reached                      *)
WithoutDevice ==
  IF cur.fn = "listMtpFileTree" /\ cur.folderPath = <<>> THEN Err(REJECTED)
  ELSE Err(NO_MTP)

(* the part of C19 that holds: with a null handle, before any detectMtp as *)
(* after a release, no provider call is made and the result is the same    *)
C19_SameAsBeforeAcquisition ==
  (device = Null /\ cur.fn \in GuardedOps /\ ~(cur.fn = "releaseDevice" /\ ret = Ok(TRUE))) =>
    /\ log = <<>>
    /\ Done => ret = WithoutDevice

(* a releaseDevice succeeded and released stays set while the handle is    *)
(* null                                                                    *)
C19_ReleaseNullsHandle == released => device = Null

(* an operation on the device's files was refused after a release *)
C19_Witness ==
  /\ released /\ Done /\ InFileOp /\ storageId # <<>>
  /\ ret = Err(NO_MTP) /\ log = <<>>

(* a second releaseDevice was refused *)
C19_WitnessSecondRelease ==
  /\ released /\ cur.fn = "releaseDevice" /\ ret = Err(NO_MTP) /\ log = <<>>

(* C20: no result carries both data and an error: in every {data, error}   *)
(* pair a public operation or a call it awaits has returned, the data or   *)
(* the error is null.                                                      *)
C20_NeverDataAndError ==
  ret # NoRet => (ret.data = <<>> \/ ret.error = Null)

(* downloadFile was refused by the provider and returned the error alone *)
C20_Witness ==
  /\ cur.fn = "downloadFile" /\ Done
  /\ ret = Err(DOWNLOAD_FILE_FAILED)
  /\ Len(log) = 1 /\ log[1].call = "Get_File_To_File" /\ log[1].res = 1

(* fileExists found the entry and returned it with a null error *)
C20_WitnessData ==
  /\ cur.fn = "fileExists" /\ Done
  /\ ret.error = Null /\ ret.data # <<>> /\ Truthy(ret.data[1])

(* setStorageDevices returned the storage list with a null error *)
C20_WitnessStorages ==
  /\ cur.fn = "setStorageDevices" /\ Done
  /\ ret.error = Null /\ ret.data # <<>> /\ storageId # <<>>

(* a call whose promise was rejected instead of resolved with a result *)
Rejected == Done /\ ret.error = REJECTED

(* C21: no public operation ends in a thrown exception or a rejected       *)
(* promise, whatever its arguments: every failure is a result with a null  *)
(* data and an error.                                                      *)
C21_FailuresAreStructured == ~Rejected

(* the part of C21 that holds: only listMtpFileTree with a null folderPath *)
(* is rejected, and every other failure has a null data                    *)
C21_OnlyNullFolderPathRejects ==
  /\ Rejected => (cur.fn = "listMtpFileTree" /\ cur.folderPath = <<>>)
  /\ (Done /\ ret.error # Null) => ret.data = <<>>

InRename == cur.fn = "renameFile"

(* the new name is null, holds a '/', or holds nothing but white space *)
NameRefused ==
  \/ cur.newfileName = <<>>
  \/ \E k \in 1..Len(cur.newfileName[1]) : cur.newfileName[1][k] = "/"
  \/ \A k \in 1..Len(cur.newfileName[1]) : cur.newfileName[1][k] \in WhiteSpace

(* the calls renameFile may make: the listings of resolvePath, the rename  *)
(* and the reading of the metadata                                         *)
IsRenameCall(rec) ==
  rec.call \in {"Get_Files_And_Folders", "Set_File_Name", "Get_Filemetadata"}

(* C22: renameFile with a new name that is null, blank or holds a '/'      *)
(* makes no provider call, neither a listing for the path nor the rename   *)
(* nor a reading of the metadata, and with a device returns                *)
(* ILLEGAL_FILE_NAME (without a device the guard's NO_MTP).                *)
C22_IllegalNameNoCall ==
  (InRename /\ NameRefused) =>
    /\ \A k \in 1..Len(log) : ~IsRenameCall(log[k])
    /\ Done => (ret = Err(ILLEGAL_FILE_NAME) \/ (device = Null /\ ret = Err(NO_MTP)))

(* a rename by path to a name with a '/' was refused on a device that      *)
(* holds the entry                                                         *)
C22_Witness ==
  /\ Done /\ InRename /\ device # Null
  /\ cur.newfileName = <<nSlash>> /\ cur.filePath = <<Str(<<pRoot, nA>>)>>
  /\ \E k \in 1..Len(store) : store[k].id = 5
  /\ ret = Err(ILLEGAL_FILE_NAME) /\ log = <<>>

(* a rename to a blank name was refused *)
C22_WitnessBlank ==
  /\ Done /\ InRename /\ device # Null
  /\ cur.newfileName = <<nBlank>> /\ cur.fileId = <<5>>
  /\ ret = Err(ILLEGAL_FILE_NAME) /\ log = <<>>

(* the call at k of the log is a rename the provider answered with a status *)
IsRename(k) == log[k].call = "Set_File_Name" /\ log[k].res # THROW

(* the name that reading the entry id again gives: <<>> when it is gone *)
NameNow(id) ==
  LET hits == SelectSeq(store, LAMBDA e : e.id = id)
  IN IF hits = <<>> THEN <<>> ELSE <<hits[1].name>>

(* the entry renamed at k exists and does not have the requested name *)
Mismatch(k) == NameNow(log[k].id) \notin {<<>>, cur.newfileName}

(* C23: when renameFile has called the provider's rename and the entry     *)
(* does not have the requested name afterwards, the name was read again    *)
(* after the rename and the result is RENAME_FAILED, whatever status the   *)
(* rename reported.                                                        *)
C23_RenameIsVerified ==
  (InRename /\ Done) =>
    \A k \in 1..Len(log) :
      (IsRename(k) /\ Mismatch(k)) =>
        /\ k < Len(log) /\ log[k + 1].call = "Get_Filemetadata"
        /\ ret = Err(RENAME_FAILED)

(* the part of C23 that holds: after a status other than 0, on a device    *)
(* that is still held, the name is read again and a name that differs      *)
(* gives RENAME_FAILED                                                     *)
C23_VerifiedAfterFailureStatus ==
  (InRename /\ Done) =>
    \A k \in 1..Len(log) :
      (IsRename(k) /\ log[k].res # 0 /\ log[k].dev # Null) =>
        /\ k < Len(log) /\ log[k + 1].call = "Get_Filemetadata"
        /\ (log[k + 1].res = 0 /\ Mismatch(k)) => ret = Err(RENAME_FAILED)

(* a rename that reported a failure was found out by the name read again *)
C23_WitnessFailureStatus ==
  /\ InRename /\ Done /\ ret = Err(RENAME_FAILED)
  /\ Len(log) >= 2 /\ IsRename(Len(log) - 1) /\ Mismatch(Len(log) - 1)

(* C27: no provider primitive is called with a null device handle, also    *)
(* when releaseDevice is called while an operation waits for the call it   *)
(* awaits.                                                                 *)
C27_NoCallOnNullHandle ==
  \A k \in 1..Len(log) : IsProvider(log[k]) => log[k].dev # Null

(* the part of C27 that holds: the listings of resolvePath and the reading *)
(* of the metadata are made right after a guard and never get a null       *)
(* handle                                                                  *)
C27_GuardedCallsHaveHandle ==
  \A k \in 1..Len(log) :
    log[k].call \in {"Get_Files_And_Folders", "Get_Filemetadata"} => log[k].dev # Null

(* a release reached an operation that was waiting for resolvePath, and    *)
(* the operation ended on the guard of a later call                        *)
C27_WitnessReleaseInFlight ==
  /\ Done /\ ret = Err(NO_MTP)
  /\ \E k \in 1..Len(log) : log[k].call = "Release_Device" /\ log[k].res = 0

(* the path of an entry of the local file system *)
LocalPathOf(e) == PathJoin(e.dir, e.name)

(* the entries local enumeration leaves out: junk names and entries        *)
(* without read and write access                                           *)
LeftOut == SelectSeq(LocalFs, LAMBDA e : IsJunk(e.name) \/ ~e.writable)

(* p is an entry that is left out, or lies below one *)
InLeftOut(p) ==
  \E k \in 1..Len(LeftOut) :
    \/ p = LocalPathOf(LeftOut[k])
    \/ IsPrefix(LocalPathOf(LeftOut[k]) \o <<"/">>, p)

(* C24: the tree of a local enumeration holds at no depth a junk entry, an *)
(* entry without read and write access or an entry below an entry left     *)
(* out; no directory left out or below one is listed; and an enumeration   *)
(* of an existing directory in which no listing throws returns no error.   *)
C24_LocalLeavesOutJunkAndUnwritable ==
  InLocal =>
    /\ (Done /\ ret.error = Null) =>
         \A n \in 1..Len(NodesOf(ret.data[1])) :
           /\ ~IsJunk(NodesOf(ret.data[1])[n].name)
           /\ ~InLeftOut(NodesOf(ret.data[1])[n].path)
    /\ \A k \in 1..Len(log) : ~InLeftOut(log[k].path)
    /\ (Done /\ device # Null /\ LocalIsDir(cur.folderPath)
          /\ \A k \in 1..Len(log) : log[k].res # THROW) => ret.error = Null

(* /s was enumerated at every depth: of its four entries a and c are kept, *)
(* of the five entries of a only b, Aa and BB, and x was not listed        *)
C24_Witness ==
  /\ Done /\ InLocal /\ cur.recursive /\ cur.folderPath = pSrc /\ ret.error = Null
  /\ Len(ret.data[1]) = 2 /\ Len(NodesOf(ret.data[1])) = 5
  /\ ret.data[1][1].name = nA /\ Len(ret.data[1][1].children) = 3
  /\ Len(log) = 2

(* the path is the root, /s or an entry of the local file system *)
OnLocalFs(p) ==
  p \in {pRoot, pSrc} \/ \E k \in 1..Len(LocalFs) : LocalPathOf(LocalFs[k]) = p

(* C25: with a device, a local enumeration returns LOCAL_FOLDER_NOT_FOUND  *)
(* exactly when the path it was given does not exist, and in that case it  *)
(* lists no directory (without a device the guard's NO_MTP comes first).   *)
C25_SourceNotFoundIffMissing ==
  InLocal =>
    /\ (Done /\ device # Null) =>
         (ret = Err(LOCAL_FOLDER_NOT_FOUND) <=> ~OnLocalFs(cur.folderPath))
    /\ ~OnLocalFs(cur.folderPath) => log = <<>>
    /\ (Done /\ device = Null) => ret = Err(NO_MTP)

(* the enumeration of /n, which does not exist, was refused *)
C25_Witness ==
  /\ Done /\ InLocal /\ device # Null /\ cur.folderPath = pNone
  /\ ret = Err(LOCAL_FOLDER_NOT_FOUND) /\ log = <<>>

(* the enumeration of the file /s/c failed, and not as a missing source *)
C25_WitnessFile ==
  /\ Done /\ InLocal /\ device # Null /\ cur.folderPath = PathJoin(pSrc, nC)
  /\ ret = Err(THROWN)

(* the entries of the store of that name under that parent *)
Named(parentId, name) ==
  SelectSeq(store, LAMBDA e : e.parentId = parentId /\ e.name = name)

(* the send at j failed after the entry of its name, found by the listing  *)
(* at j - 2, was deleted at j - 1                                          *)
FailedReplace(j) ==
  /\ j >= 3
  /\ IsSend(log[j]) /\ log[j].res # 0
  /\ IsDestroy(log[j - 1]) /\ log[j - 1].res = 0
  /\ IsList(log[j - 2])

(* C28: when uploadFileTree has deleted the entry of a file node's name    *)
(* and the transfer of the file then fails, the failed send is the last    *)
(* call of the walk, the result is its error, the deleted entry is not in  *)
(* the device's store, and the name, when the listing held it once, is     *)
(* absent under the parent.                                                *)
C28_ReplaceIsNotAtomic ==
  InUpload =>
    \A j \in 1..Len(log) :
      FailedReplace(j) =>
        /\ Len(log) = j
        /\ ret = Err(IF log[j].res = THROW THEN THROWN ELSE UPLOAD_FILE_FAILED)
        /\ \A e \in 1..Len(store) : store[e].id # log[j - 1].id
        /\ Len(SelectSeq(log[j - 2].files, LAMBDA f : f.name = log[j].name)) = 1 =>
             Named(log[j].id, log[j].name) = <<>>

(* the file c, the only entry of that name, was deleted, the transfer      *)
(* failed, and the call returned the error with no c left                  *)
C28_Witness ==
  /\ Done /\ InUpload /\ ret = Err(UPLOAD_FILE_FAILED)
  /\ FailedReplace(Len(log))
  /\ Last(log).name = nC
  /\ Len(SelectSeq(log[Len(log) - 2].files, LAMBDA f : f.name = nC)) = 1
  /\ Named(Last(log).id, nC) = <<>>

(* C29: in uploadFileTree a send of a file node whose name the lookup      *)
(* found as a folder under the parent comes right after the Destroy_file   *)
(* of that folder, which comes right after the lookup: the type of the     *)
(* entry found is not looked at, and the frame that is about to delete     *)
(* holds the id of the first entry of the node's name, folder or file.     *)
C29_FileNodeDeletesFolder ==
  InUpload =>
    /\ \A j \in 1..Len(log) :
         IsSend(log[j]) =>
           \A k \in LookupBefore(j) :
             (findLodash(log[k].files, log[j].name) # <<>>
                /\ findLodash(log[k].files, log[j].name)[1].isFolder) =>
               /\ k = j - 2
               /\ IsDestroy(log[j - 1])
               /\ log[j - 1].id = findLodash(log[k].files, log[j].name)[1].id
    /\ Running("uploadFileTree", "delete") =>
         /\ IsList(Last(log))
         /\ findLodash(Last(log).files, Item.name) # <<>>
         /\ Top.found = findLodash(Last(log).files, Item.name)[1].id

(* the file node a replaced the folder a with what it held: the walk       *)
(* succeeded and a is a file                                               *)
C29_Witness ==
  /\ Done /\ InUpload /\ ret = Ok(TRUE)
  /\ \E j \in 3..Len(log) :
       /\ IsSend(log[j]) /\ log[j].res = 0 /\ log[j].name = nA
       /\ IsDestroy(log[j - 1]) /\ log[j - 1].res = 0 /\ log[j - 1].id = 5
       /\ IsList(log[j - 2])
       /\ findLodash(log[j - 2].files, nA)[1].isFolder
  /\ \A e \in 1..Len(store) : store[e].id # 5 /\ store[e].parentId # 5
  /\ Len(Named(FILES_AND_FOLDERS_ROOT, nA)) >= 1

(* C30: in uploadFileTree every Destroy_file that did not throw is         *)
(* followed by the send of the file node, whatever status the provider     *)
(* returned: while it is the last call the walk is about to send, and the  *)
(* next call is the send of that name.                                     *)
C30_DeleteStatusIgnored ==
  InUpload =>
    \A d \in 1..Len(log) :
      (IsDestroy(log[d]) /\ log[d].res # THROW) =>
        IF d = Len(log)
          THEN Running("uploadFileTree", "upload") /\ Top.found = log[d].id
          ELSE IsSend(log[d + 1]) /\ IsList(log[d - 1])
               /\ findLodash(log[d - 1].files, log[d + 1].name) # <<>>
               /\ findLodash(log[d - 1].files, log[d + 1].name)[1].id = log[d].id

(* the provider did not delete c and said so; c was sent all the same and  *)
(* the parent holds the name twice                                         *)
C30_Witness ==
  /\ Done /\ InUpload /\ ret = Ok(TRUE)
  /\ \E d \in 2..(Len(log) - 1) :
       /\ IsDestroy(log[d]) /\ log[d].res = 1
       /\ IsSend(log[d + 1]) /\ log[d + 1].res = 0
       /\ \E e \in 1..Len(store) : store[e].id = log[d].id
       /\ Len(SelectSeq(log[d - 1].files, LAMBDA f : f.name = log[d + 1].name)) = 1
       /\ Len(Named(log[d + 1].id, log[d + 1].name)) = 2

(* deleteFile called on its own: a Destroy_file that did not throw gives   *)
(* data true, whatever its status                                          *)
C30_DeleteFileReturnsTrue ==
  (cur.fn = "deleteFile" /\ Done /\ log # <<>> /\ IsDestroy(Last(log))) =>
    (ret = IF Last(log).res = THROW THEN Err(THROWN) ELSE Ok(TRUE))

(* deleteFile returned true for an entry the provider did not delete *)
C30_WitnessDeleteFile ==
  /\ cur.fn = "deleteFile" /\ Done /\ ret = Ok(TRUE)
  /\ IsDestroy(Last(log)) /\ Last(log).res = 1 /\ Last(log).dev # Null
  /\ \E e \in 1..Len(store) : store[e].id = Last(log).id

(* the (parent, name, isFolder) entries of a store *)
Structure(st) == {<<st[k].parentId, st[k].name, st[k].isFolder>> : k \in 1..Len(st)}

(* no name is listed twice under one parent *)
NoNameTwice(st) ==
  \A j, k \in 1..Len(st) :
    (st[j].parentId = st[k].parentId /\ st[j].name = st[k].name) => j = k

(* a call of uploadFileTree that followed the same call has returned, on a *)
(* device that is held and a destination that was found                    *)
RanTwice ==
  /\ Done /\ InUpload /\ cur.run >= 2
  /\ device # Null
  /\ INVALID_NOT_FOUND \notin {ret.error, cur.prevRet.error}

(* C26: with a provider that does not fail, uploadFileTree run a second    *)
(* time with the same nodes and destination succeeds as the first run did, *)
(* and leaves the (parent, name, isFolder) entries the first run left,     *)
(* with no name twice under one parent                                     *)
C26_TwiceSameStructure ==
  RanTwice =>
    /\ cur.prevRet = Ok(TRUE)
    /\ ret = Ok(TRUE)
    /\ Structure(store) = Structure(cur.prev)
    /\ NoNameTwice(store)

(* C26, amended: when the first run succeeded on a destination that held   *)
(* no name twice under one parent, the second run succeeds, leaves the     *)
(* entries the first run left, and neither run leaves a name twice under   *)
(* one parent                                                              *)
C26_TwiceSameStructureAfterSuccess ==
  (RanTwice /\ cur.prevRet = Ok(TRUE) /\ NoNameTwice(cur.start)) =>
    /\ ret = Ok(TRUE)
    /\ Structure(store) = Structure(cur.prev)
    /\ NoNameTwice(cur.prev)
    /\ NoNameTwice(store)

(* whatever the first run did, the second leaves the entries it found *)
C26_SecondRunKeepsStructure ==
  RanTwice => Structure(store) = Structure(cur.prev)

(* the second run met the folder the first run made (the sentinel) and     *)
(* replaced the files the first run sent                                   *)
C26_Witness ==
  /\ RanTwice /\ cur.run = 2 /\ cur.prevRet = Ok(TRUE) /\ ret = Ok(TRUE)
  /\ cur.start = <<>>
  /\ \E k \in 1..Len(log) : IsCreate(log[k]) /\ log[k].res = 0
  /\ \E k \in 1..Len(log) : IsDestroy(log[k])
  /\ Len(store) = 3

(* the segments of the destination path uploadFileTree was called with *)
UploadSegments == Tail(Split(PathResolve(cur.folderPath[1], cwd)))

(* the frame of the public call *)
Bottom == stack[Len(stack)]

(* the k-th call of the log is the listing that resolves segment k: of the *)
(* root for k = 1, else of the entry found for segment k - 1               *)
ResolvesSegment(k) ==
  /\ IsList(log[k])
  /\ k = 1 => log[k].id = FILES_AND_FOLDERS_ROOT
  /\ k > 1 =>
       /\ findLodash(log[k - 1].files, UploadSegments[k - 1]) # <<>>
       /\ log[k].id = findLodash(log[k - 1].files, UploadSegments[k - 1])[1].id

(* the listing of segment k threw or held no entry of that name *)
SegmentFails(k) ==
  log[k].res = THROW \/ findLodash(log[k].files, UploadSegments[k]) = <<>>

(* C31: uploadFileTree given a destination path resolves it once, before   *)
(* the first node: resolvePath runs only right above the frame of the      *)
(* public call, while the log holds listings alone; the recursive calls    *)
(* carry an id and no path; once the walk has begun the log starts with    *)
(* the one listing per segment and the walk's parent is the entry they     *)
(* found; and a resolution that fails ends the call with an error, no      *)
(* create, delete or upload call made                                      *)
C31_ResolvesOnceBeforeWalk ==
  (InUpload /\ device # Null) =>
    /\ \A k \in 1..Len(stack) :
         /\ stack[k].fn = "resolvePath" =>
              /\ k = 1 /\ Len(stack) = 2
              /\ Bottom.fn = "uploadFileTree" /\ Bottom.pc = "resolved"
              /\ cur.folderPath # <<>>
              /\ Len(log) <= Len(UploadSegments)
              /\ \A j \in 1..Len(log) : IsList(log[j])
         /\ (stack[k].fn = "uploadFileTree" /\ k < Len(stack)) =>
              /\ stack[k].folderPath = <<>>
              /\ stack[k].pc # "resolved"
    /\ (cur.folderPath # <<>> /\ stack # <<>> /\ Bottom.pc \notin {"entry", "resolved"}) =>
         /\ Len(log) >= Len(UploadSegments)
         /\ \A k \in 1..Len(UploadSegments) : ResolvesSegment(k) /\ ~SegmentFails(k)
         /\ Bottom.parentId =
              <<findLodash(log[Len(UploadSegments)].files, Last(UploadSegments))[1].id>>
    /\ (cur.folderPath # <<>> /\ Running("uploadFileTree", "resolved") /\ ret.error # Null) =>
         \A j \in 1..Len(log) : IsList(log[j])
    /\ (cur.folderPath # <<>> /\ Done
          /\ \E k \in 1..Len(log) :
               /\ k <= Len(UploadSegments) /\ SegmentFails(k)
               /\ \A j \in 1..k : ResolvesSegment(j)) =>
         /\ ret.error # Null
         /\ Len(log) <= Len(UploadSegments)
         /\ \A j \in 1..Len(log) : IsList(log[j])

(* a walk below a resolved destination path went into a folder it made and *)
(* sent a file there: the root was listed once                             *)
C31_Witness ==
  /\ Done /\ InUpload /\ cur.folderPath # <<>> /\ ret = Ok(TRUE)
  /\ Cardinality({k \in 1..Len(log) : IsList(log[k]) /\ log[k].id = FILES_AND_FOLDERS_ROOT}) = 1
  /\ \E k \in 1..Len(log) :
       /\ IsCreate(log[k]) /\ log[k].made # 0
       /\ \E j \in (k + 1)..Len(log) : IsSend(log[j]) /\ log[j].id = log[k].made

(* the destination path was not found: one listing, no other call *)
C31_WitnessNotFound ==
  /\ Done /\ InUpload /\ cur.folderPath # <<>> /\ device # Null
  /\ ret = Err(INVALID_NOT_FOUND)
  /\ Len(log) = 1 /\ IsList(log[1]) /\ log[1].res = 0

(* id is the id of the first of files, in their order, named name *)
FirstNamed(files, name, id) ==
  \E i \in 1..Len(files) :
    /\ files[i].name = name /\ files[i].id = id
    /\ \A j \in 1..(i - 1) : files[j].name # name

RECURSIVE IdsOf(_)
IdsOf(entries) ==
  IF entries = <<>> THEN <<>> ELSE <<Head(entries).id>> \o IdsOf(Tail(entries))

(* a is b with some of its elements left out, the others in b's order *)
RECURSIVE IsSubSeq(_, _)
IsSubSeq(a, b) ==
  IF a = <<>> THEN TRUE
  ELSE IF b = <<>> THEN FALSE
  ELSE IF Head(a) = Head(b) THEN IsSubSeq(Tail(a), Tail(b))
  ELSE IsSubSeq(a, Tail(b))

(* the nodes made of a listing are its entries in the listing's order,     *)
(* none but hidden ones left out                                           *)
InListedOrder(nodes, files) ==
  /\ IsSubSeq(IdsOf(nodes), IdsOf(files))
  /\ \A k \in 1..Len(files) :
       IsHidden(files[k].name) \/ \E n \in 1..Len(nodes) : nodes[n].id = files[k].id

(* C32: resolvePath goes on, and ends, with the first entry of a listing,  *)
(* in the provider's order, whose name is the segment; fileExists returns  *)
(* the first entry of the listing named fileName, false when there is      *)
(* none; and the nodes an enumeration returns for a folder are that        *)
(* folder's listing in the provider's order, with none but hidden entries  *)
(* left out                                                                *)
C32_FirstMatchInProviderOrder ==
  /\ (InResolve /\ cur.filePath # <<>>) =>
       /\ \A k \in 2..Len(log) :
            FirstNamed(log[k - 1].files, Segments[k - 1], log[k].id)
       /\ (Done /\ ret.error = Null /\ log # <<>>) =>
            FirstNamed(Last(log).files, Segments[Len(log)], ret.data[1].id)
  /\ (cur.fn = "fileExists" /\ Done /\ ret.error = Null) =>
       /\ Len(log) = 1 /\ IsList(log[1]) /\ log[1].id = cur.parentId
       /\ IF \A k \in 1..Len(log[1].files) : log[1].files[k].name # cur.name
            THEN ret = Ok(JsFalse)
            ELSE FirstNamed(log[1].files, cur.name, ret.data[1].id)
  /\ (InList /\ Done /\ ret.error = Null) =>
       /\ InListedOrder(ret.data[1], log[ListRootAt].files)
       /\ cur.recursive =>
            \A n \in 1..Len(NodesOf(ret.data[1])) :
              NodesOf(ret.data[1])[n].isFolder =>
                \E k \in 1..Len(log) :
                  /\ IsList(log[k]) /\ log[k].id = NodesOf(ret.data[1])[n].id
                  /\ InListedOrder(NodesOf(ret.data[1])[n].children, log[k].files)

(* a is listed twice in the root, a folder before a file: /a resolved to   *)
(* the folder                                                              *)
C32_Witness ==
  /\ Done /\ InResolve /\ cur.filePath # <<>> /\ ret.error = Null
  /\ Len(log) = 1
  /\ Cardinality({k \in 1..Len(log[1].files) : log[1].files[k].name = Segments[1]}) = 2
  /\ ret.data[1].id = 5

(* fileExists found the first of two entries named a *)
C32_WitnessFileExists ==
  /\ cur.fn = "fileExists" /\ Done /\ ret.error = Null /\ ret # Ok(JsFalse)
  /\ Cardinality({k \in 1..Len(log[1].files) : log[1].files[k].name = cur.name}) = 2
  /\ ret.data[1].id = 5

(* an enumeration returned the four entries of the root, two names twice,  *)
(* in the order the provider listed them                                   *)
C32_WitnessListing ==
  /\ InList /\ Done /\ ret.error = Null
  /\ IdsOf(log[ListRootAt].files) = <<5, 6, 3, 4>>
  /\ IdsOf(ret.data[1]) = <<5, 6, 3, 4>>

(* the local path p is the directory d or lies below it *)
Inside(p, d) == p = d \/ IsPrefix(Str(<<d, <<"/">>>>), p)

(* the name is one segment of a path, neither . nor .. *)
PlainName(name) == ~HasSlash(name) /\ name \notin {<<>>, <<".">>, <<".", ".">>}

(* C33: every local path downloadFileTree creates or fetches into lies     *)
(* inside the destination directory it was given, whatever the names of    *)
(* the nodes                                                               *)
C33_StaysInsideDestination ==
  InDownload =>
    \A k \in 1..Len(log) :
      (IsMkdir(log[k]) \/ IsFetch(log[k])) => Inside(log[k].path, cur.destinationFilePath)

(* when every node of the tree has a plain name, every local path created  *)
(* or fetched into lies inside the destination                             *)
C33_PlainNamesStayInside ==
  (InDownload /\ \A n \in 1..Len(Source) : PlainName(Source[n].name)) =>
    \A k \in 1..Len(log) :
      (IsMkdir(log[k]) \/ IsFetch(log[k])) => Inside(log[k].path, cur.destinationFilePath)

(* a tree of plain names was downloaded, a file fetched into a folder made *)
C33_WitnessPlainNames ==
  /\ Done /\ InDownload /\ ret = Ok(TRUE)
  /\ \A n \in 1..Len(Source) : PlainName(Source[n].name)
  /\ \E k \in 1..Len(log) : IsFetch(log[k]) /\ Len(Split(log[k].path)) > 3

(* the ids the listings of the log from place k on were made for *)
RECURSIVE ListedIds(_)
ListedIds(k) ==
  IF k > Len(log) THEN <<>>
  ELSE (IF IsList(log[k]) THEN <<log[k].id>> ELSE <<>>) \o ListedIds(k + 1)

FolderNodes(tree) == SelectSeq(NodesOf(tree), LAMBDA n : n.isFolder)

(* the enumeration proper has begun: folderPath is resolved *)
Enumerating ==
  InList /\ cur.recursive
    /\ \E k \in 1..Len(stack) : stack[k].fn = "__listMtpFileTree"

(* a recursive enumeration returned: after the listings that resolved the  *)
(* path it made one listing for the folder enumerated and one for each     *)
(* folder node of the tree it returns, in the order of the nodes; and, no  *)
(* listing having failed, no folder below the one enumerated is among its  *)
(* own descendants                                                         *)
ListedOncePerFolder ==
  (InList /\ cur.folderPath # <<>> /\ cur.recursive /\ Done /\ ret.error = Null) =>
    /\ \A k \in ListRootAt..Len(log) : IsList(log[k])
    /\ ListedIds(ListRootAt) = <<log[ListRootAt].id>> \o IdsOf(FolderNodes(ret.data[1]))
    /\ faults = 0 => ~CycleBelow(store, log[ListRootAt].id)

(* while it runs, every folder frame but the top one waits for the call it *)
(* made for a folder of its listing, and there are as many listings as     *)
(* calls begun                                                             *)
RecursesAtEveryDepth ==
  Enumerating =>
    \A k \in 2..Len(stack) :
      (stack[k].fn = "__listMtpFileTree" /\ stack[k - 1].fn = "__listMtpFileTree") =>
        /\ stack[k].pc = "child"
        /\ stack[k].files[stack[k].i].isFolder
        /\ stack[k - 1].folderId = stack[k].files[stack[k].i].id

C34_WitnessReturns ==
  /\ InList /\ cur.recursive /\ Done /\ ret.error = Null /\ faults = 0
  /\ ListPath = pRoot
  /\ Len(FolderNodes(ret.data[1])) = 2 /\ Len(log) = 3

(* setStorageDevices has returned the mapping of a device with storages *)
StorageSet ==
  cur.fn = "setStorageDevices" /\ Done /\ ret.error = Null /\ cur.keys # <<>>

Listed(keys, v) == \E k \in 1..Len(keys) : keys[k] = v

(* the storage the claim names: the requested id when it is listed, else   *)
(* the id at storageIndex, else the first                                  *)
Requested(keys) ==
  IF cur.storageId # <<>> /\ Listed(keys, ToKey(cur.storageId[1])) THEN ToKey(cur.storageId[1])
  ELSE IF cur.storageIndex + 1 <= Len(keys) THEN keys[cur.storageIndex + 1]
  ELSE keys[1]

(* C35: after setStorageDevices succeeds on a device with a storage, the   *)
(* storage id is the requested one if listed, else the one at              *)
(* storageIndex, else the first; it is a listed id; and the one entry of   *)
(* the mapping marked selected is that id                                  *)
C35_SelectedStorageIsListed ==
  StorageSet =>
    /\ ret.data # <<>>
    /\ storageId # <<>>
    /\ ToKey(storageId[1]) = Requested(cur.keys)
    /\ Listed(cur.keys, storageId[1])
    /\ \A n \in 1..Len(ret.data[1]) :
         ret.data[1][n].selected <=> ret.data[1][n].id = Requested(cur.keys)
    /\ Cardinality({n \in 1..Len(ret.data[1]) : ret.data[1][n].selected}) = 1

(* the same when the requested storageId is a string or not given *)
C35_SelectedWhenStringOrIndex ==
  (StorageSet /\ (cur.storageId = <<>> \/ cur.storageId[1] \notin NumberIds)) =>
    /\ ret.data # <<>>
    /\ storageId = <<Requested(cur.keys)>>
    /\ Listed(cur.keys, storageId[1])
    /\ \A n \in 1..Len(ret.data[1]) :
         ret.data[1][n].selected <=> ret.data[1][n].id = Requested(cur.keys)
    /\ Cardinality({n \in 1..Len(ret.data[1]) : ret.data[1][n].selected}) = 1

(* the second storage was requested by its key and is the one marked *)
C35_WitnessString ==
  /\ StorageSet /\ cur.storageId = <<"65538">> /\ cur.storageIndex = 0
  /\ storageId = <<"65538">>
  /\ ret.data[1][2].selected /\ ~ret.data[1][1].selected

(* the characters of '/s/a/b': 31-multiples of the character codes, summed *)
HashAB == ((((47 * 31 + 115) * 31 + 47) * 31 + 97) * 31 + 47) * 31 + 98

(* every node of a returned local tree has the hash of its path as its id *)
IdsAreHashes ==
  (Done /\ InLocal /\ ret.error = Null) =>
    LET nodes == NodesOf(ret.data[1]) IN
    \A n \in 1..Len(nodes) : nodes[n].id = quickHash(nodes[n].path)

(* C36: the id of a local node is the signed 32-bit hash of its absolute   *)
(* path, h = 31 * h + charCode wrapped to 32 bits and 0 for the empty      *)
(* string, and in one tree returned by the local enumeration no two        *)
(* distinct nodes have the same id.                                        *)
C36_LocalIdsAreUniqueHashes ==
  /\ IdsAreHashes
  /\ (Done /\ InLocal /\ ret.error = Null) =>
       LET nodes == NodesOf(ret.data[1]) IN
       \A m, n \in 1..Len(nodes) : nodes[m].id = nodes[n].id => m = n

(* the part of C36 that holds: the id is the hash of the path, a signed    *)
(* integer of 32 bits; the hash of '' is 0, the hash of a short path is    *)
(* the plain sum, the hash of a long path is the sum wrapped to 32 bits.   *)
C36_IdIsHashOfPath ==
  /\ IdsAreHashes
  /\ quickHash(<<>>) = 0
  /\ quickHash(Str(<<pSrcA, <<"/">>, nB>>)) = HashAB
  /\ quickHash(Str(<<pSrc, <<"/">>, nJunk>>)) = 796585236
  /\ quickHash(Str(<<pSrcA, <<"/">>, nAa>>)) = quickHash(Str(<<pSrcA, <<"/">>, nBB>>))
  /\ (Done /\ InLocal /\ ret.error = Null) =>
       LET nodes == NodesOf(ret.data[1]) IN
       \A n \in 1..Len(nodes) :
         nodes[n].id \div Half \in (0 - 32768)..32767

(* /s/a was enumerated and its files Aa and BB are both in the tree *)
C36_WitnessSameHash ==
  /\ Done /\ InLocal /\ ret.error = Null
  /\ LET nodes == NodesOf(ret.data[1]) IN
     \E m, n \in 1..Len(nodes) :
       /\ nodes[m].name = nAa
       /\ nodes[n].name = nBB
       /\ nodes[m].id = nodes[n].id


InLegacyDownload == cur.fn = "legacy.downloadFileTree"

(* the ids the call has fetched, in the order of the fetches *)
FetchedIds ==
  LET fetches == SelectSeq(log, IsFetch) IN
  {fetches[k].id : k \in 1..Len(fetches)}

(* the file nodes of the tree handed to the call *)
FileNodeIds ==
  LET nodes == NodesOf(cur.nodes) IN
  {nodes[n].id : n \in {m \in 1..Len(nodes) : ~nodes[m].isFolder}}

(* C37: downloadFileTree of the first MTP class processes every node in    *)
(* order: when no call fails every file node of the tree, at every depth,  *)
(* has been fetched when it returns, and when a call fails, in a nested    *)
(* folder as well, the top-level call returns an error.                    *)
C37_LegacyFetchesEveryFile ==
  (Done /\ InLegacyDownload /\ device # Null) =>
    /\ (\A k \in 1..Len(log) : log[k].res = 0) => FileNodeIds \subseteq FetchedIds
    /\ (\E k \in 1..Len(log) : log[k].res # 0) =>
         (ret.error \notin {Null, Undefined.error} \/ (ret.data # <<>> /\ ret.data[1] # 0))

(* what the code does instead: the call ends at the first file node of the *)
(* list it walks, so each list of nodes has at most one fetch, and a call  *)
(* in which nothing fails fetches at most one file for each folder it has  *)
(* made, and one more                                                      *)
C37_LegacyEndsAtFirstFile ==
  InLegacyDownload =>
    Len(SelectSeq(log, IsFetch)) <= Len(SelectSeq(log, IsMkdir)) + 1

(* the tree a{b, c{b}}, .h was walked without a failure: b and .h were     *)
(* fetched, the folder c was never entered and its file never fetched      *)
C37_WitnessFileSkipped ==
  /\ Done /\ InLegacyDownload /\ device # Null
  /\ \A k \in 1..Len(log) : log[k].res = 0
  /\ store = StoreNested
  /\ FetchedIds = {9, 2}
  /\ 7 \in FileNodeIds

InLegacyOperation ==
  cur.fn \in {"legacy.downloadFileTree", "legacy.listMtpFileTree", "legacy.deleteFile"}

(* C38: after a releaseDevice of the first MTP class that returned without *)
(* error, every operation returns the NO_MTP error and calls no primitive  *)
(* of the provider, as before detection.                                   *)
C38_LegacyReleaseInvalidates ==
  (released /\ Done /\ InLegacyOperation) => (ret = Err(NO_MTP) /\ log = <<>>)

(* what holds: before detection every operation returns NO_MTP and makes   *)
(* no call, and releaseDevice leaves this.device as it was                 *)
C38_LegacyGuardOnNullOnly ==
  /\ (device = Null /\ Done /\ InLegacyOperation) => (ret = Err(NO_MTP) /\ log = <<>>)
  /\ (cur.fn = "legacy.releaseDevice" /\ ret.error = Null) => device # Null

(* an enumeration after a release listed the root through the handle that  *)
(* was released                                                            *)
C38_WitnessCallAfterRelease ==
  /\ released /\ Done /\ cur.fn = "legacy.listMtpFileTree"
  /\ ret.error = Null
  /\ Len(log) > 0 /\ log[1].call = "Get_Files_And_Folders" /\ log[1].dev # Null


InRun == cur.fn = "run"

Stages == {"detectMtp", "setStorageDevices", "listMtpFileTree", "downloadFileTree",
           "releaseDevice"}

IsStage(rec) == rec.call \in Stages
IsPrint(rec) == rec.call = "console.error"
IsRelease(rec) == rec.call = "Release_Device"

(* the error of detectMtp was printed: the record after that of its call *)
DetectFailed == Len(log) > 1 /\ IsPrint(log[2])

(* the error of a stage before releaseDevice was printed at k *)
StageErrorAt(k) ==
  /\ IsPrint(log[k])
  /\ \A j \in 1..k : log[j].call # "releaseDevice"

(* after a printed stage error the run calls no stage; releaseDevice is    *)
(* called only when no stage error was printed before, and nothing is      *)
(* called after it; and a run that has ended, in which detection succeeded *)
(* and a later stage failed, has not released the device                   *)
HaltsOnStageError ==
  /\ \A k \in 1..Len(log) : StageErrorAt(k) => \A j \in k..Len(log) : ~IsStage(log[j])
  /\ \A k \in 1..Len(log) :
       log[k].call = "releaseDevice" =>
         /\ \A j \in 1..k : ~IsPrint(log[j])
         /\ \A j \in k..Len(log) : IsStage(log[j]) => j = k
  /\ (Done /\ ~DetectFailed /\ \E k \in 1..Len(log) : StageErrorAt(k)) =>
       (\A j \in 1..Len(log) : ~IsRelease(log[j])) /\ device # Null /\ ~released

(* C39: in the driver programs a stage error makes the driver print the    *)
(* error and halt without running any later stage, releaseDevice is called *)
(* only as the last step of a run in which every earlier stage succeeded,  *)
(* and a run in which detection succeeds and a later stage fails ends with *)
(* the device not released.                                                *)
C39_DriversHaltOnStageError ==
  InRun => HaltsOnStageError

(* the part of C39 that holds: the run of part_001 *)
C39_Part001HaltsOnStageError ==
  (InRun /\ cur.driver = "part_001") => HaltsOnStageError

(* a run of part_001 in which detection succeeded and the download failed  *)
(* has ended with the handle held                                          *)
C39_WitnessNotReleased ==
  /\ Done /\ InRun /\ cur.driver = "part_001"
  /\ ~DetectFailed
  /\ \E k \in 1..Len(log) : log[k].call = "downloadFileTree"
  /\ IsPrint(log[Len(log)])
  /\ device # Null /\ ~released

(* a run of part_001 in which every stage succeeded has released the device *)
C39_WitnessReleased ==
  /\ Done /\ InRun /\ cur.driver = "part_001"
  /\ released /\ device = Null
  /\ IsRelease(log[Len(log)])
  /\ \E k \in 1..Len(log) : IsFetch(log[k])

(* a run of test.js in which detectMtp failed has gone on to releaseDevice *)
C39_WitnessTestGoesOn ==
  /\ Done /\ InRun /\ cur.driver = "test.js"
  /\ DetectFailed
  /\ \E k \in 1..Len(log) : log[k].call = "releaseDevice"

====
